---------------------------- MODULE Spec2Model ----------------------------
(***************************************************************************)
(* Holder-side disclosure session of the wallet (ISO 18013-5 mdoc):        *)
(* DisclosureSession::start, DeviceRequest::verify and                     *)
(* DeviceRequest::match_stored_documents of                                *)
(* wallet_core/mdoc/src/holder/disclosure.rs.                              *)
(*                                                                         *)
(* start() is an async function; it is modelled as three steps that are    *)
(* cut at its two await points (the transport post and the query of the    *)
(* mdoc data source).                                                      *)
(***************************************************************************)
EXTENDS Naturals, Integers, Sequences, FiniteSets, TLC

VARIABLES
    pc,                  \* position of the one start() call
    session_type,        \* argument of start()
    reader_engagement_bytes, \* argument of start()
    reader_engagement,   \* Option: the decoded ReaderEngagement
    ephemeral_privkey,   \* Option: private key made by new_device_engagement
    transcript,          \* Option: SessionTranscript of this call
    session_keys,        \* Option: the reader and the device SessionKey
    posts,               \* the posts made over the transport: <<url, message>>
    session_data,        \* Option: the SessionData the verifier answered
    device_request,      \* Option: the decrypted DeviceRequest
    verify_result,       \* Option: what DeviceRequest::verify returned
    queries,             \* doc type sets the mdoc data source was asked for
    mdocs,               \* Option: the Vecs the mdoc data source returned
    matched,             \* Option: what match_stored_documents computed
    result,              \* outcome of start()
    session,             \* Option: the DisclosureSession start() returned
    implementation,      \* the MdocDisclosureSession type the wallet is built with
    NEXT_START_ERROR,    \* Option: the error the next mock start() returns
    NEXT_MOCK_FIELDS,    \* Option: the fields the next mock start() takes
    disclosure_session,  \* Option: the MdocDisclosureSession the wallet owns
    disclosure_count,    \* disclosures the proposal has made
    was_terminated,      \* whether terminate() ran on the session
    calls,               \* the calls made on the session so far, with results
    pairs,               \* the locals of each of the start() calls that run together
    mdoc_data_source,    \* the mdocs of the data source those calls borrow
    lock,                \* the WalletLock: is_locked and Option update_callback
    callback_calls,      \* the invocations of lock callbacks: <<callback, value>>
    wallet,              \* the other fields of the Wallet that issuance and reset use
    returned,            \* the last call on the lock or the wallet, with its result
    steps                \* number of calls made on the lock or the wallet

start_vars == <<pc, session_type, reader_engagement_bytes, reader_engagement, ephemeral_privkey, transcript,
          session_keys, posts, session_data, device_request, verify_result, queries,
          mdocs, matched, result, session>>

wallet_vars == <<implementation, NEXT_START_ERROR, NEXT_MOCK_FIELDS, disclosure_session,
                 disclosure_count, was_terminated, calls>>

pair_vars == <<pairs, mdoc_data_source>>

issuance_vars == <<lock, callback_calls, wallet, returned, steps>>

vars == <<start_vars, wallet_vars, pair_vars, issuance_vars>>

-----------------------------------------------------------------------------
(* Bounds of the model *)

MaxDocRequests == 2

\* the most mdocs of a store of CandidateStores
MaxHeld == 3

MaxStored == 2

-----------------------------------------------------------------------------
(* Values *)

\* Option<T>: None is the empty sequence, Some(x) the sequence of x alone
None == <<>>

Some(x) == <<x>>

Unwrap(option) == option[1]

DocTypes == {"T1", "T2"}

\* the orders in which a HashMap keyed by doc type may be iterated
DocTypeOrders == {<<"T1", "T2">>, <<"T2", "T1">>}

SessionTypes == {"SameDevice", "CrossDevice"}

REFERRER_URL == "https://referrer.url/"

SESSION_URL == "http://example.com/disclosure"

OTHER_URL == "http://example.com/other"

RETURN_URL == "http://example.com/return"

RP_CA_CN == "ca.rp.example.com"

OTHER_CA_CN == "ca.other.example.com"

-----------------------------------------------------------------------------
(* Sequence helpers *)

RECURSIVE Flatten(_)
Flatten(seqs) ==
    IF seqs = <<>> THEN <<>> ELSE Head(seqs) \o Flatten(Tail(seqs))

Range(s) == {s[i] : i \in 1..Len(s)}

\* IndexSet: insertion order, a value inserted again keeps its first place
RECURSIVE IndexSetOf(_)
IndexSetOf(s) ==
    IF s = <<>> THEN <<>>
    ELSE LET init == IndexSetOf(SubSeq(s, 1, Len(s) - 1))
             last == s[Len(s)]
         IN  IF last \in Range(init) THEN init ELSE Append(init, last)

\* Sequences over S of length at most n
RECURSIVE SeqsUpTo(_, _)
SeqsUpTo(S, n) ==
    IF n = 0 THEN {<<>>}
    ELSE LET shorter == SeqsUpTo(S, n - 1)
         IN  shorter \cup {Append(s, x) : s \in shorter, x \in S}

-----------------------------------------------------------------------------
(* AttributeIdentifier and the attributes of requests and mdocs *)

AttributeIdentifier(doc_type, namespace, attribute) ==
    [doc_type |-> doc_type, namespace |-> namespace, attribute |-> attribute]

\* ItemsRequest::attribute_identifiers: the identifiers of one ItemsRequest,
\* name_spaces being an IndexMap (a sequence of <<namespace, names>>)
ItemsRequestAttributeIdentifiers(items_request) ==
    IndexSetOf(Flatten(
        [i \in 1..Len(items_request.name_spaces) |->
            LET name_space == items_request.name_spaces[i][1]
                names == items_request.name_spaces[i][2]
            IN  [j \in 1..Len(names) |->
                    AttributeIdentifier(items_request.doc_type, name_space, names[j])]]))

\* DeviceRequest::attribute_identifiers: all identifiers of all DocRequests
DeviceRequestAttributeIdentifiers(doc_requests) ==
    IndexSetOf(Flatten(
        [i \in 1..Len(doc_requests) |->
            ItemsRequestAttributeIdentifiers(doc_requests[i].items_request)]))

\* IssuerSigned::attribute_identifiers: the identifiers an mdoc holds
IssuerSignedAttributeIdentifiers(issuer_signed, doc_type) ==
    IF issuer_signed.name_spaces = None THEN {}
    ELSE LET name_spaces == Unwrap(issuer_signed.name_spaces)
         IN  UNION {
                {AttributeIdentifier(doc_type, name_spaces[i][1],
                                     name_spaces[i][2][j].element_identifier) :
                    j \in 1..Len(name_spaces[i][2])} :
                i \in 1..Len(name_spaces)}

-----------------------------------------------------------------------------
(* Serialization, engagements, SessionTranscript and session keys *)

\* cbor_serialize: the bytes of a value
CborSerialize(value) == <<"cbor", value>>

\* cbor_deserialize: the value of well-formed bytes, Error::Cbor otherwise
\* (empty bytes and truncated bytes are not well-formed)
CborDeserialize(bytes) ==
    IF Len(bytes) = 2 /\ bytes[1] = "cbor"
    THEN [ok |-> TRUE, value |-> <<bytes[2]>>, error |-> "none"]
    ELSE [ok |-> FALSE, value |-> <<>>, error |-> "Cbor"]

\* the public key of a private key
PublicKey(privkey) == <<"pub", privkey>>

\* ReaderEngagement::verifier_url as it would be with methods.last()
VerifierUrlOfLast(engagement) ==
    IF engagement.connection_methods = None
            \/ Unwrap(engagement.connection_methods) = <<>>
    THEN [ok |-> FALSE, value |-> <<>>, error |-> "VerifierUrlMissing"]
    ELSE [ok |-> TRUE,
          value |-> <<Unwrap(engagement.connection_methods)[
                        Len(Unwrap(engagement.connection_methods))]>>,
          error |-> "none"]

\* ReaderEngagement::verifier_url: the URL of the first connection method
VerifierUrl(engagement) ==
    IF engagement.connection_methods = None
            \/ Unwrap(engagement.connection_methods) = <<>>
    THEN [ok |-> FALSE, value |-> <<>>, error |-> "VerifierUrlMissing"]
    ELSE [ok |-> TRUE, value |-> <<Unwrap(engagement.connection_methods)[1]>>,
          error |-> "none"]

\* ReaderEngagement::verifier_public_key
VerifierPublicKey(engagement) ==
    IF engagement.security = None
    THEN [ok |-> FALSE, value |-> <<>>, error |-> "VerifierEphemeralKeyMissing"]
    ELSE [ok |-> TRUE, value |-> engagement.security, error |-> "none"]

\* DeviceEngagement::new_device_engagement, for the private key it drew
NewDeviceEngagement(referrer_url, privkey) ==
    [version |-> "1.0",
     security |-> Some(PublicKey(privkey)),
     connection_methods |-> None,
     origin_infos |-> <<[cat |-> "Received", typ |-> <<"Website", referrer_url>>],
                        [cat |-> "Delivered", typ |-> <<"MessageData">>]>>]

\* SessionTranscript::new: a function of the flow type and both engagements;
\* it fails when an engagement carries no key
SessionTranscript(type, reader, device) ==
    IF reader.security = None \/ device.security = None THEN None
    ELSE Some(<<"SessionTranscript", type, reader, device>>)

\* SessionKey::new: the secret both sides agree on (from one side's private
\* and the other side's public key), expanded with the transcript and the
\* user of the key
SessionKey(privkey, pubkey, session_transcript, user) ==
    <<"SessionKey", {privkey, pubkey[2]}, session_transcript, user>>

\* transcript_and_keys_for_device_engagement as it would be if it derived
\* from a device engagement and key of its own making and not from the ones
\* it is handed
TranscriptAndKeysOfOwnEngagement(engagement, type, device_engagement, device_private_key) ==
    LET verifier_public_key == VerifierPublicKey(engagement)
        session_transcript == SessionTranscript(type, engagement,
                                                NewDeviceEngagement(REFERRER_URL, "d0"))
    IN  IF ~verifier_public_key.ok THEN verifier_public_key
        ELSE IF session_transcript = None
        THEN [ok |-> FALSE, value |-> <<>>, error |-> "VerifierEphemeralKeyMissing"]
        ELSE [ok |-> TRUE,
              value |-> <<[transcript |-> Unwrap(session_transcript),
                           reader_key |-> SessionKey("d0", Unwrap(verifier_public_key.value),
                                                     Unwrap(session_transcript), "Reader"),
                           device_key |-> SessionKey("d0", Unwrap(verifier_public_key.value),
                                                     Unwrap(session_transcript), "Device")]>>,
              error |-> "none"]

\* ReaderEngagement::transcript_and_keys_for_device_engagement
TranscriptAndKeysForDeviceEngagement(engagement, type, device_engagement, device_private_key) ==
    LET verifier_public_key == VerifierPublicKey(engagement)
        session_transcript == SessionTranscript(type, engagement, device_engagement)
    IN  IF ~verifier_public_key.ok THEN verifier_public_key
        ELSE IF session_transcript = None
        THEN [ok |-> FALSE, value |-> <<>>, error |-> "VerifierEphemeralKeyMissing"]
        ELSE [ok |-> TRUE,
              value |-> <<[transcript |-> Unwrap(session_transcript),
                           reader_key |-> SessionKey(device_private_key,
                                                     Unwrap(verifier_public_key.value),
                                                     Unwrap(session_transcript), "Reader"),
                           device_key |-> SessionKey(device_private_key,
                                                     Unwrap(verifier_public_key.value),
                                                     Unwrap(session_transcript), "Device")]>>,
              error |-> "none"]

\* SessionData::serialize_and_encrypt
SerializeAndEncrypt(value, key) ==
    [data |-> Some(<<"encrypted", key, CborSerialize(value)>>), status |-> None]

\* SessionData::decrypt_and_deserialize
DecryptAndDeserialize(data, key) ==
    IF data.data = None
    THEN [ok |-> FALSE, value |-> <<>>, error |-> "Crypto"]
    ELSE IF Unwrap(data.data)[2] # key
    THEN [ok |-> FALSE, value |-> <<>>, error |-> "Crypto"]
    ELSE CborDeserialize(Unwrap(data.data)[3])

\* DeviceAuthentication::from_session_transcript and its serialization
DeviceSignedChallenge(session_transcript, doc_type) ==
    CborSerialize(<<"DeviceAuthentication", session_transcript, doc_type, <<>> >>)

-----------------------------------------------------------------------------
(* ProposedDocument *)

\* from_mdoc as it would be if it compared the attribute names only and
\* not the name space of the requested identifiers
FromMdocByName(mdoc, requested_attributes, device_signed_challenge) ==
    LET Filtered(attributes) ==
            SelectSeq(attributes,
                LAMBDA attribute :
                    \E id \in Range(requested_attributes) :
                        id.attribute = attribute.element_identifier)
        name_spaces ==
            IF mdoc.issuer_signed.name_spaces = None THEN None
            ELSE LET all == Unwrap(mdoc.issuer_signed.name_spaces)
                 IN  Some(SelectSeq(
                        [i \in 1..Len(all) |-> <<all[i][1], Filtered(all[i][2])>>],
                        LAMBDA entry : entry[2] # <<>>))
    IN  [private_key_id |-> mdoc.private_key_id,
         doc_type |-> mdoc.doc_type,
         issuer_signed |-> [name_spaces |-> name_spaces,
                            issuer_auth |-> mdoc.issuer_signed.issuer_auth],
         device_signed_challenge |-> device_signed_challenge]

\* ProposedDocument::from_mdoc
FromMdoc(mdoc, requested_attributes, device_signed_challenge) ==
    LET Filtered(name_space, attributes) ==
            SelectSeq(attributes,
                LAMBDA attribute :
                    AttributeIdentifier(mdoc.doc_type, name_space,
                                        attribute.element_identifier)
                        \in Range(requested_attributes))
        name_spaces ==
            IF mdoc.issuer_signed.name_spaces = None THEN None
            ELSE LET all == Unwrap(mdoc.issuer_signed.name_spaces)
                 IN  Some(SelectSeq(
                        [i \in 1..Len(all) |->
                            <<all[i][1], Filtered(all[i][1], all[i][2])>>],
                        LAMBDA entry : entry[2] # <<>>))
    IN  [private_key_id |-> mdoc.private_key_id,
         doc_type |-> mdoc.doc_type,
         issuer_signed |-> [name_spaces |-> name_spaces,
                            issuer_auth |-> mdoc.issuer_signed.issuer_auth],
         device_signed_challenge |-> device_signed_challenge]

\* Attributes -> Vec<Entry>: an entry keeps the name and the value of an item
EntriesOf(attributes) ==
    [i \in 1..Len(attributes) |->
        [name |-> attributes[i].element_identifier,
         value |-> attributes[i].element_value]]

\* ProposedDocument::name_spaces
ProposedNameSpaces(document) ==
    IF document.issuer_signed.name_spaces = None THEN <<>>
    ELSE LET name_spaces == Unwrap(document.issuer_signed.name_spaces)
         IN  [i \in 1..Len(name_spaces) |->
                <<name_spaces[i][1], EntriesOf(name_spaces[i][2])>>]

\* the missing attributes of one mdoc: requested_attributes.difference(available)
MissingOf(mdoc, requested_attributes) ==
    SelectSeq(requested_attributes,
        LAMBDA id : id \notin IssuerSignedAttributeIdentifiers(mdoc.issuer_signed,
                                                               mdoc.doc_type))

\* candidates_and_missing_attributes_from_mdocs as it would be if it put
\* what every lacking mdoc misses into one record
CandidatesAndAllMissingAttributesFromMdocs(doc_type_mdocs, requested_attributes, device_signed_challenge) ==
    LET satisfying ==
            SelectSeq(doc_type_mdocs,
                LAMBDA mdoc : MissingOf(mdoc, requested_attributes) = <<>>)
        lacking ==
            SelectSeq(doc_type_mdocs,
                LAMBDA mdoc : MissingOf(mdoc, requested_attributes) # <<>>)
    IN  [candidates |->
            [i \in 1..Len(satisfying) |->
                FromMdoc(satisfying[i], requested_attributes, device_signed_challenge)],
         missing_attributes |->
            IF lacking = <<>> THEN <<>>
            ELSE <<SelectSeq(requested_attributes,
                        LAMBDA id : \E i \in 1..Len(lacking) :
                            id \in Range(MissingOf(lacking[i], requested_attributes)))>>]

\* candidates_and_missing_attributes_from_mdocs as it would be if the
\* challenge were computed for every candidate, over the key of its mdoc
CandidatesWithChallengePerMdoc(doc_type_mdocs, requested_attributes, device_signed_challenge) ==
    LET satisfying ==
            SelectSeq(doc_type_mdocs,
                LAMBDA mdoc : MissingOf(mdoc, requested_attributes) = <<>>)
        lacking ==
            SelectSeq(doc_type_mdocs,
                LAMBDA mdoc : MissingOf(mdoc, requested_attributes) # <<>>)
    IN  [candidates |->
            [i \in 1..Len(satisfying) |->
                FromMdoc(satisfying[i], requested_attributes,
                         <<device_signed_challenge, satisfying[i].private_key_id>>)],
         missing_attributes |->
            [i \in 1..Len(lacking) |-> MissingOf(lacking[i], requested_attributes)]]

\* ProposedDocument::candidates_and_missing_attributes_from_mdocs
CandidatesAndMissingAttributesFromMdocs(doc_type_mdocs, requested_attributes, device_signed_challenge) ==
    LET satisfying ==
            SelectSeq(doc_type_mdocs,
                LAMBDA mdoc : MissingOf(mdoc, requested_attributes) = <<>>)
        lacking ==
            SelectSeq(doc_type_mdocs,
                LAMBDA mdoc : MissingOf(mdoc, requested_attributes) # <<>>)
    IN  [candidates |->
            [i \in 1..Len(satisfying) |->
                FromMdoc(satisfying[i], requested_attributes, device_signed_challenge)],
         missing_attributes |->
            [i \in 1..Len(lacking) |-> MissingOf(lacking[i], requested_attributes)]]

-----------------------------------------------------------------------------
(* DeviceRequest::match_stored_documents *)

\* the doc types of a DeviceRequest (a HashSet)
RequestDocTypes(doc_requests) ==
    {doc_requests[i].items_request.doc_type : i \in 1..Len(doc_requests)}

\* requested_attributes_by_doc_type: a HashMap from each doc type that has
\* a requested attribute to the IndexSet of the identifiers requested for it
RequestedAttributesByDocType(doc_requests) ==
    LET all == DeviceRequestAttributeIdentifiers(doc_requests)
    IN  [doc_type \in {all[i].doc_type : i \in 1..Len(all)} |->
            SelectSeq(all, LAMBDA id : id.doc_type = doc_type)]

\* the values of a HashMap, in the order in which this run iterates over it
ValuesIn(map, order) ==
    LET keys == SelectSeq(order, LAMBDA key : key \in DOMAIN map)
    IN  [i \in 1..Len(keys) |-> map[keys[i]]]

\* The closure over the Vecs the data source returned (lines 545-586): the
\* accumulator holds requested_attributes_by_doc_type, all_missing_attributes,
\* candidates_by_doc_type and whether an expect() or panic!() was hit.
RECURSIVE MatchGroups(_, _, _)
MatchGroups(groups, acc, session_transcript) ==
    IF groups = <<>> \/ acc.panicked THEN acc
    ELSE LET doc_type_mdocs == Head(groups)
         IN  IF doc_type_mdocs = <<>>
             THEN MatchGroups(Tail(groups), acc, session_transcript)
             ELSE
             LET first_doc_type == doc_type_mdocs[1].doc_type
             IN  IF first_doc_type \notin DOMAIN acc.requested
                 THEN [acc EXCEPT !.panicked = TRUE]
                 ELSE IF \E i \in 1..Len(doc_type_mdocs) :
                            doc_type_mdocs[i].doc_type # first_doc_type
                 THEN [acc EXCEPT !.panicked = TRUE,
                                  !.requested = [t \in DOMAIN acc.requested \ {first_doc_type}
                                                    |-> acc.requested[t]]]
                 ELSE
                 LET requested_attributes == acc.requested[first_doc_type]
                     found == CandidatesAndMissingAttributesFromMdocs(
                                 doc_type_mdocs, requested_attributes,
                                 DeviceSignedChallenge(session_transcript, first_doc_type))
                 IN  MatchGroups(
                        Tail(groups),
                        [requested |-> [t \in DOMAIN acc.requested \ {first_doc_type}
                                            |-> acc.requested[t]],
                         all_missing |->
                            IF found.missing_attributes # <<>>
                            THEN Append(acc.all_missing, found.missing_attributes[1])
                            ELSE acc.all_missing,
                         candidates |-> (first_doc_type :> found.candidates) @@ acc.candidates,
                         panicked |-> FALSE],
                        session_transcript)

\* match_stored_documents as it would be if expect() and panic!() did not
\* abort but left the doc type to the missing attributes
MatchStoredDocumentsWithoutPanic(doc_requests, groups, session_transcript, order) ==
    LET acc == MatchGroups(groups,
                           [requested |-> RequestedAttributesByDocType(doc_requests),
                            all_missing |-> <<>>,
                            candidates |-> <<>>,
                            panicked |-> FALSE],
                           session_transcript)
    IN  [kind |-> "MissingAttributes",
         candidates |-> acc.candidates,
         missing_attributes |->
            Flatten(acc.all_missing) \o Flatten(ValuesIn(acc.requested, order))]

\* DeviceRequestMatch, with the HashMaps iterated in the given order
MatchStoredDocuments(doc_requests, groups, session_transcript, order) ==
    LET acc == MatchGroups(groups,
                           [requested |-> RequestedAttributesByDocType(doc_requests),
                            all_missing |-> <<>>,
                            candidates |-> <<>>,
                            panicked |-> FALSE],
                           session_transcript)
    IN  IF acc.panicked
        THEN [kind |-> "Panic", candidates |-> acc.candidates, missing_attributes |-> <<>>]
        ELSE IF (\E doc_type \in DOMAIN acc.candidates : acc.candidates[doc_type] = <<>>)
                \/ DOMAIN acc.requested # {}
        THEN [kind |-> "MissingAttributes",
              candidates |-> acc.candidates,
              missing_attributes |->
                Flatten(acc.all_missing) \o Flatten(ValuesIn(acc.requested, order))]
        ELSE [kind |-> "Candidates",
              candidates |-> acc.candidates,
              missing_attributes |-> <<>>]

-----------------------------------------------------------------------------
(* Reader authentication *)

Ok(value) == [ok |-> TRUE, value |-> Some(value), error |-> "none"]

Err(error) == [ok |-> FALSE, value |-> None, error |-> error]

\* the payload a reader authentication signature is made over:
\* ReaderAuthenticationKeyed with its fixed string, serialized
ReaderAuthenticationPayload(session_transcript, items_request) ==
    <<"ReaderAuthentication", session_transcript, items_request>>

\* cose.verify_against_trust_anchors and cose.signing_cert: the signature
\* must be one over the given payload, made with the key of a certificate
\* that an anchor issued
VerifyAgainstTrustAnchors(reader_auth, payload, trust_anchors) ==
    IF reader_auth.signed_payload # payload THEN Err("Cose")
    ELSE IF reader_auth.signing_cert.issuer \notin trust_anchors
    THEN Err("CertificateValidation")
    ELSE Ok(reader_auth.signing_cert)

\* DocRequest::verify as it would be if it took the certificate of the
\* signature without verifying the signature
DocRequestVerifyUnchecked(doc_request, session_transcript, trust_anchors) ==
    IF doc_request.reader_auth = None THEN Ok(None)
    ELSE Ok(Some(Unwrap(doc_request.reader_auth).signing_cert))

\* DocRequest::verify as it would be if the signature were verified over
\* the fixed string and the ItemsRequest alone, whatever the transcript
DocRequestVerifyWithoutTranscript(doc_request, session_transcript, trust_anchors) ==
    IF doc_request.reader_auth = None THEN Ok(None)
    ELSE LET reader_auth == Unwrap(doc_request.reader_auth)
         IN  IF \/ reader_auth.signed_payload[1] # "ReaderAuthentication"
                \/ reader_auth.signed_payload[3] # doc_request.items_request
             THEN Err("Cose")
             ELSE IF reader_auth.signing_cert.issuer \notin trust_anchors
             THEN Err("CertificateValidation")
             ELSE Ok(Some(reader_auth.signing_cert))

\* DocRequest::verify
DocRequestVerify(doc_request, session_transcript, trust_anchors) ==
    IF doc_request.reader_auth = None THEN Ok(None)
    ELSE LET checked == VerifyAgainstTrustAnchors(
                            Unwrap(doc_request.reader_auth),
                            ReaderAuthenticationPayload(session_transcript,
                                                        doc_request.items_request),
                            trust_anchors)
         IN  IF checked.ok THEN Ok(checked.value) ELSE checked

\* ReaderRegistration::verify_requested_attributes: every requested
\* identifier is one the registration authorizes
VerifyRequestedAttributes(doc_requests, registration) ==
    Range(DeviceRequestAttributeIdentifiers(doc_requests)) \subseteq registration.attributes

\* the try_fold as it would be without the comparison of the certificates
RECURSIVE VerifyFoldNoCompare(_, _, _, _)
VerifyFoldNoCompare(doc_requests, result_cert, session_transcript, trust_anchors) ==
    IF doc_requests = <<>> THEN Ok(result_cert)
    ELSE LET checked == DocRequestVerify(Head(doc_requests), session_transcript,
                                         trust_anchors)
         IN  IF ~checked.ok THEN checked
             ELSE VerifyFoldNoCompare(Tail(doc_requests), Unwrap(checked.value),
                                      session_transcript, trust_anchors)

\* the try_fold over the DocRequests (lines 450-467); result_cert is the
\* certificate of the previous iteration
RECURSIVE VerifyFold(_, _, _, _)
VerifyFold(doc_requests, result_cert, session_transcript, trust_anchors) ==
    IF doc_requests = <<>> THEN Ok(result_cert)
    ELSE LET verified == DocRequestVerify(Head(doc_requests), session_transcript,
                                          trust_anchors)
         IN  IF ~verified.ok THEN verified
             ELSE LET doc_request_cert == Unwrap(verified.value)
                  IN  IF result_cert # None /\ doc_request_cert # result_cert
                      THEN Err("ReaderAuthsInconsistent")
                      ELSE VerifyFold(Tail(doc_requests), doc_request_cert,
                                      session_transcript, trust_anchors)

\* lines 469-479 as they would be without verify_requested_attributes
RegistrationOfUnverified(doc_requests, certificate) ==
    IF certificate.registration = None
    THEN Err("NoReaderRegistration")
    ELSE Ok(certificate.registration)

\* lines 469-479: the ReaderRegistration of the one certificate, provided
\* it authorizes the requested attributes
RegistrationOf(doc_requests, certificate) ==
    IF certificate.registration = None
    THEN Err("NoReaderRegistration")
    ELSE IF ~VerifyRequestedAttributes(doc_requests, Unwrap(certificate.registration))
    THEN Err("ReaderRegistrationValidation")
    ELSE Ok(certificate.registration)

\* DeviceRequest::verify as it would be if it returned None as soon as any
\* DocRequest lacks reader authentication
DeviceRequestVerifyAnyNone(doc_requests, session_transcript, trust_anchors) ==
    IF doc_requests = <<>>
        \/ \E i \in 1..Len(doc_requests) : doc_requests[i].reader_auth = None
    THEN Ok(None)
    ELSE LET folded == VerifyFold(doc_requests, None, session_transcript, trust_anchors)
         IN  IF ~folded.ok THEN folded
             ELSE RegistrationOf(doc_requests, Unwrap(Unwrap(folded.value)))

\* DeviceRequest::verify as it would be if it required reader authentication
\* of every DocRequest, also when none has it
DeviceRequestVerifyNoneIsError(doc_requests, session_transcript, trust_anchors) ==
    IF doc_requests = <<>> THEN Ok(None)
    ELSE IF \E i \in 1..Len(doc_requests) : doc_requests[i].reader_auth = None
    THEN Err("ReaderAuthMissing")
    ELSE LET folded == VerifyFold(doc_requests, None, session_transcript, trust_anchors)
         IN  IF ~folded.ok THEN folded
             ELSE RegistrationOf(doc_requests, Unwrap(Unwrap(folded.value)))

\* DeviceRequest::verify: Ok(None), Ok(Some(registration)) or an error
DeviceRequestVerify(doc_requests, session_transcript, trust_anchors) ==
    IF \A i \in 1..Len(doc_requests) : doc_requests[i].reader_auth = None
    THEN Ok(None)
    ELSE IF \E i \in 1..Len(doc_requests) : doc_requests[i].reader_auth = None
    THEN Err("ReaderAuthMissing")
    ELSE LET folded == VerifyFold(doc_requests, None, session_transcript, trust_anchors)
         IN  IF ~folded.ok THEN folded
             ELSE RegistrationOf(doc_requests, Unwrap(Unwrap(folded.value)))

-----------------------------------------------------------------------------
(* The inputs of the model: engagements, certificates, requests, mdocs *)

NameSpaces == {"n1", "n2"}

Attributes == {"a", "b"}

AllIdentifiers ==
    {AttributeIdentifier(t, n, a) : t \in DocTypes, n \in NameSpaces, a \in Attributes}

VERIFIER_KEY == "r1"

EphemeralKeys == {"d1", "d2"}

ReaderEngagement(security, connection_methods) ==
    [version |-> "1.0", security |-> security,
     connection_methods |-> connection_methods, origin_infos |-> <<>>]

\* ReaderEngagement::new_reader_engagement
NewReaderEngagement(session_url) ==
    ReaderEngagement(Some(PublicKey(VERIFIER_KEY)), Some(<<session_url>>))

ReaderEngagements ==
    {NewReaderEngagement(SESSION_URL),
     ReaderEngagement(Some(PublicKey(VERIFIER_KEY)), Some(<<OTHER_URL, SESSION_URL>>)),
     ReaderEngagement(Some(PublicKey(VERIFIER_KEY)), Some(<<>>)),
     ReaderEngagement(Some(PublicKey(VERIFIER_KEY)), None),
     ReaderEngagement(None, Some(<<SESSION_URL>>))}

\* what start() may be handed as reader_engagement_bytes
EngagementBytes ==
    {<<>>, <<"cbor">>} \cup {CborSerialize(e) : e \in ReaderEngagements}

TrustAnchors == {RP_CA_CN}

ReaderRegistration(organization, attributes) ==
    [organization |-> organization, attributes |-> attributes]

Certificate(subject, issuer, registration) ==
    [subject |-> subject, issuer |-> issuer, registration |-> registration]

\* a reader certificate that authorizes all but one attribute
CertA ==
    Certificate("cert.rp.example.com", RP_CA_CN,
        Some(ReaderRegistration("rp",
                AllIdentifiers \ {AttributeIdentifier("T2", "n1", "b")})))

\* a second reader certificate, of a reader authorized for one attribute
CertB ==
    Certificate("cert.rp2.example.com", RP_CA_CN,
        Some(ReaderRegistration("rp2", {AttributeIdentifier("T1", "n1", "a")})))

\* a certificate of the same CA that carries no ReaderRegistration
CertPlain == Certificate("cert.plain.example.com", RP_CA_CN, None)

\* a reader certificate that no trust anchor issued
CertRogue ==
    Certificate("cert.rp.example.com", OTHER_CA_CN,
        Some(ReaderRegistration("rp", AllIdentifiers)))

Certificates == {CertA, CertB, CertPlain, CertRogue}

ItemsRequest(doc_type, name_spaces) ==
    [doc_type |-> doc_type, name_spaces |-> name_spaces, request_info |-> None]

\* the NameSpaces an ItemsRequest may ask for: nothing, one attribute, two
\* attributes of one name space, one attribute of each of two name spaces
RequestNameSpaces ==
    {<<>>,
     << <<"n1", <<"a">> >> >>,
     << <<"n1", <<"a", "b">> >> >>,
     << <<"n1", <<"a">> >>, <<"n2", <<"a">> >> >>}

\* the ItemsRequests of the session flow: without attributes, for an
\* attribute both readers may request, for one only the first reader may
\* request, and with an attribute no reader may request
FlowItemsRequests ==
    {ItemsRequest("T1", <<>>),
     ItemsRequest("T1", << <<"n1", <<"a">> >> >>),
     ItemsRequest("T2", << <<"n1", <<"a">> >> >>),
     ItemsRequest("T2", << <<"n1", <<"a", "b">> >> >>)}

\* the ItemsRequests that matching is checked on
MatchItemsRequests ==
    {ItemsRequest("T1", n) : n \in RequestNameSpaces}
    \cup {ItemsRequest("T2", << <<"n1", <<"a">> >> >>)}

\* the transcript of some other session of the same verifier
ForeignTranscript(type, engagement) ==
    <<"SessionTranscript", type, engagement, NewDeviceEngagement(REFERRER_URL, "d0")>>

\* a reader authentication: the certificate of the signing key and the
\* payload the signature was made over (the COSE carries no payload)
ReaderAuth(signing_cert, signed_payload) ==
    [signing_cert |-> signing_cert, signed_payload |-> signed_payload]

\* the reader_auth values a DocRequest of a session may carry: none, one
\* signed for this session with any certificate, one replayed from another
ReaderAuths(session_transcript, items_request) ==
    {None}
    \cup {Some(ReaderAuth(c, ReaderAuthenticationPayload(session_transcript, items_request))) :
            c \in Certificates}
    \cup {Some(ReaderAuth(CertA,
                ReaderAuthenticationPayload(
                    ForeignTranscript(session_transcript[2], session_transcript[3]),
                    items_request)))}

DocRequest(items_request, reader_auth) ==
    [items_request |-> items_request, reader_auth |-> reader_auth]

DeviceRequest(doc_requests) ==
    [version |-> "1.0", doc_requests |-> doc_requests]

\* the DeviceRequests a verifier may send in the session flow
FlowDeviceRequests(session_transcript) ==
    LET doc_requests ==
            UNION {{DocRequest(items_request, auth) :
                        auth \in ReaderAuths(session_transcript, items_request)} :
                    items_request \in FlowItemsRequests}
    IN  {DeviceRequest(s) : s \in SeqsUpTo(doc_requests, MaxDocRequests)}

\* the ItemsRequests that replayed reader authentication is checked on
ReplayedItemsRequests ==
    {ItemsRequest("T1", << <<"n1", <<"a">> >> >>),
     ItemsRequest("T2", << <<"n1", <<"a">> >> >>)}

\* the transcripts of other sessions of the same reader: one with another
\* device engagement, one of the other flow type, one with another reader
\* engagement
ForeignTranscripts(session_transcript) ==
    {ForeignTranscript(session_transcript[2], session_transcript[3]),
     <<"SessionTranscript", CHOOSE type \in SessionTypes : type # session_transcript[2],
       session_transcript[3], session_transcript[4]>>,
     <<"SessionTranscript", session_transcript[2],
       ReaderEngagement(Some(PublicKey(VERIFIER_KEY)), Some(<<OTHER_URL, SESSION_URL>>)),
       session_transcript[4]>>}

\* the reader_auth values checked for replay, all made with the key of
\* CertA: one signed for this session and this ItemsRequest, one signed
\* for this ItemsRequest in another session, one signed in this session
\* for another ItemsRequest
ReplayedReaderAuths(session_transcript, items_request) ==
    {Some(ReaderAuth(CertA, ReaderAuthenticationPayload(session_transcript, items_request)))}
    \cup {Some(ReaderAuth(CertA, ReaderAuthenticationPayload(foreign, items_request))) :
            foreign \in ForeignTranscripts(session_transcript)}
    \cup {Some(ReaderAuth(CertA, ReaderAuthenticationPayload(session_transcript, other))) :
            other \in ReplayedItemsRequests \ {items_request}}

\* the DeviceRequests replay is checked on
ReplayedDeviceRequests(session_transcript) ==
    LET doc_requests ==
            UNION {{DocRequest(items_request, auth) :
                        auth \in ReplayedReaderAuths(session_transcript, items_request)} :
                    items_request \in ReplayedItemsRequests}
    IN  {DeviceRequest(s) : s \in SeqsUpTo(doc_requests, MaxDocRequests) \ {<<>>}}

\* the DeviceRequests matching is checked on: all signed by the same reader
MatchDeviceRequests(session_transcript) ==
    LET doc_requests ==
            {DocRequest(items_request,
                        Some(ReaderAuth(CertA,
                            ReaderAuthenticationPayload(session_transcript,
                                                        items_request)))) :
                items_request \in MatchItemsRequests}
    IN  {DeviceRequest(s) : s \in SeqsUpTo(doc_requests, MaxDocRequests)}

IssuerSignedItem(name) ==
    [element_identifier |-> name, element_value |-> <<"value", name>>]

\* the issuer signed name spaces of the mdocs of the model
MdocNameSpaces ==
    {None,
     Some(<< <<"n1", <<IssuerSignedItem("a")>> >> >>),
     Some(<< <<"n1", <<IssuerSignedItem("b"), IssuerSignedItem("a")>> >>,
             <<"n2", <<IssuerSignedItem("a")>> >> >>)}

Mdoc(doc_type, private_key_id, name_spaces) ==
    [doc_type |-> doc_type,
     private_key_id |-> private_key_id,
     issuer_signed |-> [name_spaces |-> name_spaces,
                        issuer_auth |-> <<"issuer_auth", doc_type, name_spaces>>]]

\* what the wallet may hold: at most MaxStored mdocs, each with its own key
Stores(doc_types, name_spaces) ==
    LET kinds == {<<t, n>> : t \in doc_types, n \in name_spaces}
    IN  {[i \in 1..Len(s) |-> Mdoc(s[i][1], i, s[i][2])] :
            s \in SeqsUpTo(kinds, MaxStored)}

\* the mdocs held in the session flow
FlowStores == Stores(DocTypes, MdocNameSpaces \ {None})

\* the mdocs matching is checked on
MatchStores == Stores(DocTypes, MdocNameSpaces)

\* the mdocs the handling of several candidates is checked on: at most
\* MaxHeld mdocs that each hold every attribute of the model
CandidateStores ==
    LET full == Some(<< <<"n1", <<IssuerSignedItem("b"), IssuerSignedItem("a")>> >>,
                        <<"n2", <<IssuerSignedItem("a")>> >> >>)
    IN  {[i \in 1..Len(s) |-> Mdoc(s[i], i, full)] : s \in SeqsUpTo(DocTypes, MaxHeld)}

\* MdocDataSource::mdoc_by_doc_types: what a data source holding the store
\* may answer.  One that keeps its contract returns one Vec per requested
\* doc type, in an order of its choice, with or without the empty Vecs; the
\* contract is not enforceable, so a source may also return the mdocs of
\* doc types that were not asked for, all mdocs in one Vec, or every mdoc
\* in a Vec of its own; and it may fail.
MdocByDocTypes(store, doc_types) ==
    LET OfType(t) == SelectSeq(store, LAMBDA mdoc : mdoc.doc_type = t)
        Grouped(order, types) ==
            LET keys == SelectSeq(order, LAMBDA t : t \in types)
            IN  [i \in 1..Len(keys) |-> OfType(keys[i])]
        NonEmpty(groups) == SelectSeq(groups, LAMBDA group : group # <<>>)
        asked == SelectSeq(store, LAMBDA mdoc : mdoc.doc_type \in doc_types)
    IN  {[ok |-> FALSE, value |-> <<>>]}
        \cup {[ok |-> TRUE, value |-> Grouped(order, doc_types)] : order \in DocTypeOrders}
        \cup {[ok |-> TRUE, value |-> NonEmpty(Grouped(order, doc_types))] :
                order \in DocTypeOrders}
        \cup {[ok |-> TRUE, value |-> NonEmpty(Grouped(order, DocTypes))] :
                order \in DocTypeOrders}
        \cup {[ok |-> TRUE, value |-> <<asked>>],
              [ok |-> TRUE, value |-> [i \in 1..Len(asked) |-> <<asked[i]>>]]}

-----------------------------------------------------------------------------
(* DisclosureSession::start *)

\* the outcome of start(): pending, a session, an error or a panic
Outcome(status, error) ==
    [status |-> status, error |-> error, missing_attributes |-> <<>>,
     reader_registration |-> None, doc_types |-> <<>>]

Pending == Outcome("Pending", "none")

Failed(error) == Outcome("Err", error)

\* HolderError::AttributesNotAvailable
AttributesNotAvailable(registration, missing_attributes) ==
    [Outcome("Err", "AttributesNotAvailable")
        EXCEPT !.missing_attributes = missing_attributes,
               !.reader_registration = Some(registration)]

\* HolderError::MultipleCandidates
MultipleCandidates(doc_types) ==
    [Outcome("Err", "MultipleCandidates") EXCEPT !.doc_types = doc_types]

\* what the verifier answers to a DeviceEngagement (as the verifier of the
\* tests does): it derives the transcript and the reader key on its side
\* and encrypts a DeviceRequest; or the post fails, or the answer is not
\* one of this session
VerifierResponses(engagement, type, device_engagement) ==
    LET session_transcript == Unwrap(SessionTranscript(type, engagement, device_engagement))
        device_public_key == Unwrap(device_engagement.security)
        reader_key == SessionKey(VERIFIER_KEY, device_public_key, session_transcript, "Reader")
        wrong_key == SessionKey(VERIFIER_KEY, device_public_key, session_transcript, "Device")
    IN  {[ok |-> FALSE, value |-> <<>>, error |-> "HttpClient"]}
        \cup {Ok(SerializeAndEncrypt(request, reader_key)) :
                request \in FlowDeviceRequests(session_transcript)}
        \cup {Ok(SerializeAndEncrypt(DeviceRequest(<<>>), wrong_key)),
              Ok([data |-> None, status |-> Some("SessionTermination")]),
              Ok([data |-> Some(<<"encrypted", reader_key, <<"cbor">> >>), status |-> None])}

\* the answers of a verifier that sends the DeviceRequests replay is
\* checked on, encrypted with the reader key of the session
ReplayedResponses(engagement, type, device_engagement) ==
    LET session_transcript == Unwrap(SessionTranscript(type, engagement, device_engagement))
        device_public_key == Unwrap(device_engagement.security)
        reader_key == SessionKey(VERIFIER_KEY, device_public_key, session_transcript, "Reader")
    IN  {Ok(SerializeAndEncrypt(request, reader_key)) :
            request \in ReplayedDeviceRequests(session_transcript)}

\* line 193 as it would be if bytes that do not decode gave the default
\* ReaderEngagement
DecodeReaderEngagementOrDefault(bytes) ==
    IF CborDeserialize(bytes).ok THEN CborDeserialize(bytes)
    ELSE Ok(ReaderEngagement(None, None))

\* line 193: cbor_deserialize(reader_engagement_bytes)
DecodeReaderEngagement(bytes) == CborDeserialize(bytes)

\* lines 192-212: decode the engagement, take the verifier URL, make the
\* device engagement, derive transcript and keys, post the engagement
StartEngage ==
    /\ pc = "idle"
    /\ UNCHANGED <<wallet_vars, pair_vars, issuance_vars>>
    /\ \E bytes \in EngagementBytes, type \in SessionTypes, privkey \in EphemeralKeys :
        LET decoded == DecodeReaderEngagement(bytes)
            engagement == Unwrap(decoded.value)
            verifier_url == VerifierUrl(engagement)
            device_engagement == NewDeviceEngagement(REFERRER_URL, privkey)
            derived == TranscriptAndKeysForDeviceEngagement(engagement, type,
                                                            device_engagement, privkey)
        IN  /\ session_type' = type
            /\ reader_engagement_bytes' = bytes
            /\ IF ~decoded.ok
               THEN /\ result' = Failed(decoded.error)
                    /\ pc' = "done"
                    /\ UNCHANGED <<reader_engagement, ephemeral_privkey, transcript,
                                   session_keys, posts>>
               ELSE IF ~verifier_url.ok
               THEN /\ result' = Failed(verifier_url.error)
                    /\ pc' = "done"
                    /\ reader_engagement' = Some(engagement)
                    /\ UNCHANGED <<ephemeral_privkey, transcript, session_keys, posts>>
               ELSE IF ~derived.ok
               THEN /\ result' = Failed(derived.error)
                    /\ pc' = "done"
                    /\ reader_engagement' = Some(engagement)
                    /\ ephemeral_privkey' = Some(privkey)
                    /\ UNCHANGED <<transcript, session_keys, posts>>
               ELSE /\ result' = Pending
                    /\ pc' = "posting"
                    /\ reader_engagement' = Some(engagement)
                    /\ ephemeral_privkey' = Some(privkey)
                    /\ transcript' = Some(Unwrap(derived.value).transcript)
                    /\ session_keys' = Some([reader_key |-> Unwrap(derived.value).reader_key,
                                             device_key |-> Unwrap(derived.value).device_key])
                    /\ posts' = Append(posts, <<Unwrap(verifier_url.value), device_engagement>>)
    /\ UNCHANGED <<session_data, device_request, verify_result, queries, mdocs,
                   matched, session>>

\* line 216 as it would be if the test for DocRequests were left out
DocRequestsNeverEmpty(request) == FALSE

\* line 216: device_request.doc_requests.is_empty()
DocRequestsIsEmpty(request) == request.doc_requests = <<>>

\* lines 212-230 and 490-499: the answer to the post arrives; decrypt it,
\* require DocRequests, verify reader authentication, ask the data source
Receive(response) ==
    /\ pc = "posting"
    /\ UNCHANGED <<wallet_vars, pair_vars, issuance_vars>>
    /\  IF ~response.ok
        THEN /\ result' = Failed(response.error)
             /\ pc' = "done"
             /\ UNCHANGED <<session_data, device_request, verify_result, queries>>
        ELSE
        LET decrypted == DecryptAndDeserialize(Unwrap(response.value),
                                               Unwrap(session_keys).reader_key)
            request == Unwrap(decrypted.value)
            checked == DeviceRequestVerify(request.doc_requests, Unwrap(transcript),
                                           TrustAnchors)
        IN  /\ session_data' = response.value
            /\ IF ~decrypted.ok
               THEN /\ result' = Failed(decrypted.error)
                    /\ pc' = "done"
                    /\ UNCHANGED <<device_request, verify_result, queries>>
               ELSE IF DocRequestsIsEmpty(request)
               THEN /\ result' = Failed("NoDocumentRequests")
                    /\ pc' = "done"
                    /\ device_request' = Some(request)
                    /\ UNCHANGED <<verify_result, queries>>
               ELSE IF ~checked.ok
               THEN /\ result' = Failed(checked.error)
                    /\ pc' = "done"
                    /\ device_request' = Some(request)
                    /\ verify_result' = Some(checked)
                    /\ UNCHANGED queries
               ELSE IF Unwrap(checked.value) = None
               THEN /\ result' = Failed("ReaderAuthMissing")
                    /\ pc' = "done"
                    /\ device_request' = Some(request)
                    /\ verify_result' = Some(checked)
                    /\ UNCHANGED queries
               ELSE /\ result' = Pending
                    /\ pc' = "fetching"
                    /\ device_request' = Some(request)
                    /\ verify_result' = Some(checked)
                    /\ queries' = Append(queries, RequestDocTypes(request.doc_requests))
    /\ UNCHANGED <<session_type, reader_engagement_bytes, reader_engagement,
                   ephemeral_privkey, transcript,
                   session_keys, posts, mdocs, matched, session>>

\* the answer is one a verifier of the session flow may give
StartReceive ==
    /\ pc = "posting"
    /\ \E response \in VerifierResponses(Unwrap(reader_engagement), session_type,
                                          posts[Len(posts)][2]) :
        Receive(response)

\* the answer holds DocRequests whose reader authentication is this
\* session's own or a replayed one
StartReceiveReplayed ==
    /\ pc = "posting"
    /\ \E response \in ReplayedResponses(Unwrap(reader_engagement), session_type,
                                          posts[Len(posts)][2]) :
        Receive(response)

\* lines 247-252 as they would be without the filter of line 250: every
\* doc type is named as soon as one has more than one candidate
DuplicateDocTypesUnfiltered(candidates, order) ==
    IF \E t \in DOMAIN candidates : Len(candidates[t]) > 1
    THEN SelectSeq(order, LAMBDA t : t \in DOMAIN candidates)
    ELSE <<>>

\* the check of lines 247-252 as it would be if it let two candidates pass
DuplicateDocTypesOverTwo(candidates, order) ==
    SelectSeq(SelectSeq(order, LAMBDA t : t \in DOMAIN candidates),
              LAMBDA t : Len(candidates[t]) > 2)

\* lines 247-252: the doc types that have more than one candidate
DuplicateDocTypes(candidates, order) ==
    SelectSeq(SelectSeq(order, LAMBDA t : t \in DOMAIN candidates),
              LAMBDA t : Len(candidates[t]) > 1)

\* lines 499-608 and 232-271: the answer of the data source arrives; match
\* it against the request and make the session of the single candidates
StartMatch(stores) ==
    /\ pc = "fetching"
    /\ UNCHANGED <<wallet_vars, pair_vars, issuance_vars>>
    /\ \E store \in stores, order \in DocTypeOrders :
       \E answer \in MdocByDocTypes(store, queries[Len(queries)]) :
        IF ~answer.ok
        THEN /\ result' = Failed("MdocDataSource")
             /\ UNCHANGED <<mdocs, matched, session>>
        ELSE
        LET found == MatchStoredDocuments(Unwrap(device_request).doc_requests,
                                          answer.value, Unwrap(transcript), order)
            registration == Unwrap(Unwrap(Unwrap(verify_result).value))
            duplicate_doc_types == DuplicateDocTypes(found.candidates, order)
        IN  /\ mdocs' = Some(answer.value)
            /\ matched' = Some(found)
            /\ IF found.kind = "Panic"
               THEN /\ result' = Outcome("Panic", "none")
                    /\ UNCHANGED session
               ELSE IF found.kind = "MissingAttributes"
               THEN /\ result' = AttributesNotAvailable(registration,
                                                        found.missing_attributes)
                    /\ UNCHANGED session
               ELSE IF duplicate_doc_types # <<>>
               THEN /\ result' = MultipleCandidates(duplicate_doc_types)
                    /\ UNCHANGED session
               ELSE /\ result' = Outcome("Ok", "none")
                    /\ session' = Some(
                            [return_url |-> Some(RETURN_URL),
                             verifier_url |-> posts[Len(posts)][1],
                             device_key |-> Unwrap(session_keys).device_key,
                             proposed_documents |->
                                Flatten(ValuesIn(found.candidates, order)),
                             reader_registration |-> registration])
    /\ pc' = "done"
    /\ UNCHANGED <<session_type, reader_engagement_bytes, reader_engagement,
                   ephemeral_privkey, transcript,
                   session_keys, posts, session_data, device_request, verify_result,
                   queries>>

\* DisclosureSession::proposed_attributes: doc type -> name space -> entries,
\* an IndexMap in the order of the proposed documents
ProposedAttributes(this) ==
    [i \in 1..Len(this.proposed_documents) |->
        <<this.proposed_documents[i].doc_type,
          ProposedNameSpaces(this.proposed_documents[i])>>]

-----------------------------------------------------------------------------
(* The session as the wallet holds it: MdocDisclosureSession and          *)
(* MdocDisclosureProposal with their three implementations                *)

\* the most calls (start() included) made on one session
MaxCalls == 4

\* the types that implement MdocDisclosureSession
Implementations == {"Iso", "Vp", "Mock"}

\* MdocDisclosureSessionState::MissingAttributes
MissingAttributesState(missing_attributes) == [kind |-> "MissingAttributes", missing_attributes |-> missing_attributes, next_error |-> None, attributes_shared |-> FALSE]

\* MdocDisclosureSessionState::Proposal; next_error and attributes_shared
\* are the fields of MockMdocDisclosureProposal
ProposalState(next_error, attributes_shared) == [kind |-> "Proposal", missing_attributes |-> <<>>, next_error |-> next_error, attributes_shared |-> attributes_shared]

\* impl Default for SessionState, MockMdocDisclosureProposal::default()
DefaultSessionState == ProposalState(None, FALSE)

\* ReaderRegistration::new_mock()
ReaderRegistrationNewMock == ReaderRegistration("rp", AllIdentifiers)

\* a session object of one of the three implementations
DisclosureSessionOf(type, reader_registration, session_state) == [implementation |-> type, reader_registration |-> reader_registration, session_state |-> session_state, session_type |-> "SameDevice"]

\* the session states a start() can put a session in
SessionStates ==
    {MissingAttributesState(<<AttributeIdentifier("T1", "n1", "a")>>)}
        \cup {ProposalState(next_error, attributes_shared) :
                next_error \in {None, Some("Error")}, attributes_shared \in BOOLEAN}

\* what MockMdocDisclosureSession::next_fields() can have stored
MockFields ==
    {None} \cup {Some(<<ReaderRegistrationNewMock, session_state>>) :
                    session_state \in SessionStates}

\* MockMdocDisclosureSession::start()
MockStart(start_error, mock_fields) ==
    IF start_error # None
    THEN Err(Unwrap(start_error))
    ELSE LET fields == IF mock_fields # None
                       THEN Unwrap(mock_fields)
                       ELSE <<ReaderRegistrationNewMock, DefaultSessionState>>
         IN  Ok(DisclosureSessionOf("Mock", fields[1], fields[2]))

\* what start() of the wrapped ISO or OpenID4VP session can return: an
\* error or a session in one of the two states, its proposal without the
\* mock's fields
WrappedStarts(type) ==
    {Err("Error")} \cup
        {Ok(DisclosureSessionOf(type, ReaderRegistrationNewMock, session_state)) :
            session_state \in {s \in SessionStates : s.next_error = None
                                                     /\ ~s.attributes_shared}}

\* the match of session_state(), by a session that reports every state as
\* a proposal
SessionStateAlwaysProposal(disclosure) == [disclosure.session_state EXCEPT !.kind = "Proposal"]

\* session_state(): the match on the state of the session
SessionState(disclosure) == disclosure.session_state

\* what the wallet can read of a session: the session's accessors and,
\* through session_state(), the accessors of the state it is in
Exposed(disclosure) ==
    LET state == SessionState(disclosure)
    IN  IF state.kind = "MissingAttributes"
        THEN [reader_registration |-> disclosure.reader_registration,
              session_type |-> disclosure.session_type,
              state |-> "MissingAttributes",
              missing_attributes |-> state.missing_attributes]
        ELSE [reader_registration |-> disclosure.reader_registration,
              session_type |-> disclosure.session_type,
              state |-> "Proposal",
              missing_attributes |-> <<>>]

\* the session start() built, as the same record of what can be read of it
Returned(disclosure) ==
    [reader_registration |-> disclosure.reader_registration,
     session_type |-> disclosure.session_type,
     state |-> disclosure.session_state.kind,
     missing_attributes |-> disclosure.session_state.missing_attributes]

\* DisclosureError::new(data_shared, error)
DisclosureErrorNew(data_shared, error) == [data_shared |-> data_shared, error |-> error]

\* a DisclosureResult: Ok, or Err with a DisclosureError
DisclosureOk == [status |-> "Ok", error |-> None]

DisclosureErr(disclosure_error) == [status |-> "Err", error |-> Some(disclosure_error)]

\* the call did not return: the thread panicked
Panicked == [status |-> "Panic", error |-> None]

\* what disclose() of the wrapped ISO or OpenID4VP proposal can return
WrappedDiscloseResults ==
    {DisclosureOk} \cup {DisclosureErr(DisclosureErrorNew(data_shared, "Error")) :
                            data_shared \in BOOLEAN}

\* MockMdocDisclosureProposal::disclose(), by a proposal that keeps
\* next_error when it returns it
MockDiscloseKeepingError(proposal, count) == IF proposal.next_error # None THEN [result |-> DisclosureErr(DisclosureErrorNew(proposal.attributes_shared, Unwrap(proposal.next_error))), proposal |-> proposal, count |-> count] ELSE [result |-> DisclosureOk, proposal |-> proposal, count |-> count + 1]

\* MockMdocDisclosureProposal::disclose(): the result, the proposal and the
\* disclosure_count after the call
MockDisclose(proposal, count) ==
    IF proposal.next_error # None
    THEN [result |-> DisclosureErr(DisclosureErrorNew(proposal.attributes_shared,
                                                      Unwrap(proposal.next_error))),
          proposal |-> [proposal EXCEPT !.next_error = None],
          count |-> count]
    ELSE [result |-> DisclosureOk, proposal |-> proposal, count |-> count + 1]

\* disclose() of DisclosureProposal<CborHttpClient, Uuid>: the error of the
\* wrapped call is returned with `?`
IsoDisclose(wrapped) == IF wrapped.status = "Ok" THEN DisclosureOk ELSE wrapped

\* disclose() of VpDisclosureProposal: the wrapped result is unwrapped
VpDisclose(wrapped) == IF wrapped.status = "Ok" THEN DisclosureOk ELSE Panicked

\* the disclosures made after a wrapped disclose(): one more when it
\* succeeded or failed with data shared
WrappedCount(wrapped, count) ==
    IF wrapped.status = "Ok" \/ Unwrap(wrapped.error).data_shared
    THEN count + 1
    ELSE count

\* terminate(self), by a session that stays with its owner when the call
\* fails
AfterTerminateKeptOnError(disclosure, terminated) == IF terminated.ok THEN None ELSE Some(disclosure)

\* terminate(self) takes the session by value: whatever it returns, the
\* caller no longer has the session
AfterTerminate(disclosure, terminated) == None

\* what terminate() can return: the mock always succeeds, the wrapped ISO
\* and OpenID4VP sessions can fail to notify the verifier
TerminateResults(type) ==
    IF type = "Mock" THEN {Ok("unit")} ELSE {Ok("unit"), Err("Error")}

\* one entry of calls
Call(op, status, error, exposed) == [op |-> op, status |-> status, error |-> error, exposed |-> exposed]

\* whether a call on the session panicked
HasPanicked == \E i \in 1..Len(calls) : calls[i].status = "Panic"

\* no wallet-level session: the state of the wallet variables while
\* start() of the mdoc crate is followed
WalletIdle ==
    /\ implementation = "Iso"
    /\ NEXT_START_ERROR = None
    /\ NEXT_MOCK_FIELDS = None
    /\ disclosure_session = None
    /\ disclosure_count = 0
    /\ was_terminated = FALSE
    /\ calls = <<>>

\* MdocDisclosureSession::start()
SessionStart ==
    /\ calls = <<>>
    /\ \E started \in (IF implementation = "Mock"
                       THEN {MockStart(NEXT_START_ERROR, NEXT_MOCK_FIELDS)}
                       ELSE WrappedStarts(implementation)) :
        /\ disclosure_session' = (IF started.ok THEN started.value ELSE None)
        /\ calls' = Append(calls, IF started.ok
                                   THEN Call("start", "Ok", None,
                                             Some(Returned(Unwrap(started.value))))
                                   ELSE Call("start", "Err", None, None))
    /\ NEXT_START_ERROR' = None
    /\ NEXT_MOCK_FIELDS' = (IF implementation = "Mock" /\ NEXT_START_ERROR = None
                            THEN None
                            ELSE NEXT_MOCK_FIELDS)
    /\ UNCHANGED <<implementation, disclosure_count, was_terminated>>
    /\ UNCHANGED <<start_vars, pair_vars, issuance_vars>>

\* the accessors of the session and of its state, read through &self
SessionQuery ==
    /\ disclosure_session # None
    /\ ~HasPanicked
    /\ Len(calls) < MaxCalls
    /\ calls' = Append(calls, Call("session_state", "Ok", None,
                                   Some(Exposed(Unwrap(disclosure_session)))))
    /\ UNCHANGED <<implementation, NEXT_START_ERROR, NEXT_MOCK_FIELDS,
                   disclosure_session, disclosure_count, was_terminated>>
    /\ UNCHANGED <<start_vars, pair_vars, issuance_vars>>

\* MdocDisclosureProposal::disclose(&self), on the proposal session_state()
\* hands out
SessionDisclose ==
    /\ disclosure_session # None
    /\ ~HasPanicked
    /\ Len(calls) < MaxCalls
    /\ SessionState(Unwrap(disclosure_session)).kind = "Proposal"
    /\ LET disclosure == Unwrap(disclosure_session)
           proposal == SessionState(disclosure)
       IN  IF disclosure.implementation = "Mock"
           THEN LET disclosed == MockDisclose(proposal, disclosure_count)
                IN  /\ disclosure_session' =
                            Some([disclosure EXCEPT !.session_state = disclosed.proposal])
                    /\ disclosure_count' = disclosed.count
                    /\ calls' = Append(calls, Call("disclose", disclosed.result.status,
                                                   disclosed.result.error, None))
           ELSE \E wrapped \in WrappedDiscloseResults :
                LET disclosed == IF disclosure.implementation = "Iso"
                                 THEN IsoDisclose(wrapped)
                                 ELSE VpDisclose(wrapped)
                IN  /\ disclosure_session' = disclosure_session
                    /\ disclosure_count' = WrappedCount(wrapped, disclosure_count)
                    /\ calls' = Append(calls, Call("disclose", disclosed.status,
                                                   disclosed.error, None))
    /\ UNCHANGED <<implementation, NEXT_START_ERROR, NEXT_MOCK_FIELDS, was_terminated>>
    /\ UNCHANGED <<start_vars, pair_vars, issuance_vars>>

\* MdocDisclosureSession::terminate(self)
SessionTerminate ==
    /\ disclosure_session # None
    /\ ~HasPanicked
    /\ Len(calls) < MaxCalls
    /\ \E terminated \in TerminateResults(Unwrap(disclosure_session).implementation) :
        /\ disclosure_session' = AfterTerminate(Unwrap(disclosure_session), terminated)
        /\ calls' = Append(calls, Call("terminate", IF terminated.ok THEN "Ok" ELSE "Err",
                                       None, None))
    /\ was_terminated' = TRUE
    /\ UNCHANGED <<implementation, NEXT_START_ERROR, NEXT_MOCK_FIELDS, disclosure_count>>
    /\ UNCHANGED <<start_vars, pair_vars, issuance_vars>>

-----------------------------------------------------------------------------
(* Two start() calls that run at the same time                             *)

\* the calls that run at the same time
Sessions == {1, 2}

\* what one call is handed and what its environment does: the arguments of
\* start(), the key SecretKey::random draws for it, and the ItemsRequests
\* its verifier asks for, each signed by the first reader for the transcript
\* of the session it answers
PairInputs ==
    [bytes : {<<>>, CborSerialize(NewReaderEngagement(SESSION_URL))},
     type : SessionTypes,
     draw : EphemeralKeys,
     items_requests :
        {<<>>,
         <<ItemsRequest("T1", << <<"n1", <<"a">> >> >>)>>,
         <<ItemsRequest("T2", << <<"n1", <<"a">> >> >>)>>,
         <<ItemsRequest("T1", << <<"n1", <<"a">> >> >>),
           ItemsRequest("T2", << <<"n1", <<"a">> >> >>)>>}]

\* the mdocs of the data source both calls borrow
PairStores ==
    LET full == Some(<< <<"n1", <<IssuerSignedItem("b"), IssuerSignedItem("a")>> >>,
                        <<"n2", <<IssuerSignedItem("a")>> >> >>)
    IN  {<<>>,
         <<Mdoc("T1", 1, full)>>,
         <<Mdoc("T1", 1, full), Mdoc("T1", 2, full), Mdoc("T2", 3, full)>>}

\* the locals of a start() call that has not begun
StartLocal(input) ==
    [pc |-> "idle", input |-> input, ephemeral_privkey |-> None,
     device_engagement |-> None, transcript |-> None, session_keys |-> None,
     device_request |-> None, reader_registration |-> None,
     result |-> Pending, session |-> None]

\* SecretKey::random, by a generator that hands every call the key it made
\* for the first call that drew one
RandomKeyOfFirstCall(local) ==
    IF \E s \in Sessions : pairs[s].ephemeral_privkey # None
    THEN Unwrap(pairs[CHOOSE s \in Sessions : pairs[s].ephemeral_privkey # None].ephemeral_privkey)
    ELSE local.input.draw

\* SecretKey::random(&mut OsRng) in new_device_engagement: the key this call
\* draws
RandomKey(local) == local.input.draw

\* start() from one await to the next, on the locals of the call and the
\* borrowed data source: to the post, to the data source query, to the end
StartStep(local, store) ==
    LET input == local.input
        Ended(outcome) == [local EXCEPT !.pc = "done", !.result = outcome]
    IN  IF local.pc = "idle"
        THEN LET decoded == DecodeReaderEngagement(input.bytes)
                 engagement == Unwrap(decoded.value)
                 privkey == RandomKey(local)
                 device_engagement == NewDeviceEngagement(REFERRER_URL, privkey)
                 derived == TranscriptAndKeysForDeviceEngagement(
                                engagement, input.type, device_engagement, privkey)
             IN  IF ~decoded.ok THEN Ended(Failed(decoded.error))
                 ELSE IF ~VerifierUrl(engagement).ok
                 THEN Ended(Failed(VerifierUrl(engagement).error))
                 ELSE IF ~derived.ok
                 THEN [Ended(Failed(derived.error)) EXCEPT !.ephemeral_privkey = Some(privkey)]
                 ELSE [local EXCEPT !.pc = "posting",
                                    !.ephemeral_privkey = Some(privkey),
                                    !.device_engagement = Some(device_engagement),
                                    !.transcript = Some(Unwrap(derived.value).transcript),
                                    !.session_keys = Some(
                                        [reader_key |-> Unwrap(derived.value).reader_key,
                                         device_key |-> Unwrap(derived.value).device_key])]
        ELSE IF local.pc = "posting"
        THEN LET device_engagement == Unwrap(local.device_engagement)
                 session_transcript ==
                    Unwrap(SessionTranscript(input.type,
                                             Unwrap(DecodeReaderEngagement(input.bytes).value),
                                             device_engagement))
                 answered ==
                    DeviceRequest([i \in 1..Len(input.items_requests) |->
                        DocRequest(input.items_requests[i],
                                   Some(ReaderAuth(CertA,
                                        ReaderAuthenticationPayload(
                                            session_transcript, input.items_requests[i]))))])
                 encrypted ==
                    SerializeAndEncrypt(answered,
                        SessionKey(VERIFIER_KEY, Unwrap(device_engagement.security),
                                   session_transcript, "Reader"))
                 decrypted == DecryptAndDeserialize(encrypted,
                                                    Unwrap(local.session_keys).reader_key)
                 request == Unwrap(decrypted.value)
                 checked == DeviceRequestVerify(request.doc_requests,
                                                Unwrap(local.transcript), TrustAnchors)
             IN  IF ~decrypted.ok THEN Ended(Failed(decrypted.error))
                 ELSE IF DocRequestsIsEmpty(request)
                 THEN [Ended(Failed("NoDocumentRequests")) EXCEPT !.device_request = Some(request)]
                 ELSE IF ~checked.ok
                 THEN [Ended(Failed(checked.error)) EXCEPT !.device_request = Some(request)]
                 ELSE IF Unwrap(checked.value) = None
                 THEN [Ended(Failed("ReaderAuthMissing")) EXCEPT !.device_request = Some(request)]
                 ELSE [local EXCEPT !.pc = "fetching",
                                    !.device_request = Some(request),
                                    !.reader_registration = Unwrap(checked.value)]
        ELSE IF local.pc = "fetching"
        THEN LET doc_requests == Unwrap(local.device_request).doc_requests
                 order == <<"T1", "T2">>
                 doc_types == SelectSeq(order, LAMBDA t : t \in RequestDocTypes(doc_requests))
                 groups == [i \in 1..Len(doc_types) |->
                                SelectSeq(store, LAMBDA mdoc : mdoc.doc_type = doc_types[i])]
                 found == MatchStoredDocuments(doc_requests, groups,
                                               Unwrap(local.transcript), order)
                 duplicate_doc_types == DuplicateDocTypes(found.candidates, order)
             IN  IF found.kind = "Panic" THEN Ended(Outcome("Panic", "none"))
                 ELSE IF found.kind = "MissingAttributes"
                 THEN Ended(AttributesNotAvailable(Unwrap(local.reader_registration),
                                                   found.missing_attributes))
                 ELSE IF duplicate_doc_types # <<>>
                 THEN Ended(MultipleCandidates(duplicate_doc_types))
                 ELSE [Ended(Outcome("Ok", "none")) EXCEPT !.session = Some(
                            [return_url |-> Some(RETURN_URL),
                             verifier_url |-> SESSION_URL,
                             device_key |-> Unwrap(local.session_keys).device_key,
                             proposed_documents |->
                                Flatten(ValuesIn(found.candidates, order)),
                             reader_registration |-> Unwrap(local.reader_registration)])]
        ELSE local

\* no concurrent calls are followed
PairIdle ==
    /\ pairs = [s \in Sessions |-> StartLocal([bytes |-> <<>>, type |-> "SameDevice", draw |-> "d1", items_requests |-> <<>>])]
    /\ mdoc_data_source = <<>>

\* one of the calls runs to its next await
PairStep ==
    /\ \E s \in Sessions :
        /\ pairs[s].pc # "done"
        /\ pairs' = [pairs EXCEPT ![s] = StartStep(pairs[s], mdoc_data_source)]
    /\ UNCHANGED mdoc_data_source
    /\ UNCHANGED <<start_vars, wallet_vars, issuance_vars>>

-----------------------------------------------------------------------------
(* The lock of the wallet (wallet/src/lock.rs) *)

\* the callbacks a caller may register
Callbacks == {"f", "g"}

\* the calls made on the lock or the wallet in one run
MaxSteps == 4

\* WalletLock::new
WalletLockNew(is_locked) == [is_locked |-> is_locked, update_callback |-> None]

\* call_update_callback(): what the invocations are after it
CallUpdateCallback(this, invoked) == IF this.update_callback # None THEN Append(invoked, <<Unwrap(this.update_callback), this.is_locked>>) ELSE invoked

\* a lock() that tells the callback of every call
WalletLockLockTellingAlways(this, invoked) == [lock |-> [this EXCEPT !.is_locked = TRUE], invoked |-> CallUpdateCallback([this EXCEPT !.is_locked = TRUE], invoked)]

\* WalletLock::lock(): the lock and the invocations after it
WalletLockLock(this, invoked) == IF this.is_locked THEN [lock |-> this, invoked |-> invoked] ELSE [lock |-> [this EXCEPT !.is_locked = TRUE], invoked |-> CallUpdateCallback([this EXCEPT !.is_locked = TRUE], invoked)]

\* WalletLock::unlock(): the lock and the invocations after it
WalletLockUnlock(this, invoked) == IF ~this.is_locked THEN [lock |-> this, invoked |-> invoked] ELSE [lock |-> [this EXCEPT !.is_locked = FALSE], invoked |-> CallUpdateCallback([this EXCEPT !.is_locked = FALSE], invoked)]

\* a call that returns nothing
Unit == "()"

\* what is kept of a call: the operation, what it returned and the
\* services it reached
Returning(op, value, contacted) == [op |-> op, result |-> value, contacted |-> contacted]

\* lock()
Lock ==
    /\ steps < MaxSteps
    /\ lock' = WalletLockLock(lock, callback_calls).lock
    /\ callback_calls' = WalletLockLock(lock, callback_calls).invoked
    /\ returned' = Returning("lock", Ok(Unit), {})
    /\ steps' = steps + 1
    /\ UNCHANGED wallet
    /\ UNCHANGED <<start_vars, wallet_vars, pair_vars>>

\* unlock()
Unlock ==
    /\ steps < MaxSteps
    /\ lock' = WalletLockUnlock(lock, callback_calls).lock
    /\ callback_calls' = WalletLockUnlock(lock, callback_calls).invoked
    /\ returned' = Returning("unlock", Ok(Unit), {})
    /\ steps' = steps + 1
    /\ UNCHANGED wallet
    /\ UNCHANGED <<start_vars, wallet_vars, pair_vars>>

\* set_lock_callback(): the previous callback is returned
SetLockCallback ==
    /\ steps < MaxSteps
    /\ \E callback \in Callbacks :
        lock' = [lock EXCEPT !.update_callback = Some(callback)]
    /\ returned' = Returning("set_lock_callback", Ok(lock.update_callback), {})
    /\ steps' = steps + 1
    /\ UNCHANGED <<callback_calls, wallet>>
    /\ UNCHANGED <<start_vars, wallet_vars, pair_vars>>

\* clear_lock_callback()
ClearLockCallback ==
    /\ steps < MaxSteps
    /\ lock' = [lock EXCEPT !.update_callback = None]
    /\ returned' = Returning("clear_lock_callback", Ok(Unit), {})
    /\ steps' = steps + 1
    /\ UNCHANGED <<callback_calls, wallet>>
    /\ UNCHANGED <<start_vars, wallet_vars, pair_vars>>


-----------------------------------------------------------------------------
(* PID issuance and reset of the wallet (wallet/src/wallet) *)

\* the doc type of the PID
PID_DOCTYPE == "com.example.pid"

\* the doc types one issuance of the PID issuer hands out
IssuedDocTypes == {{PID_DOCTYPE}, {PID_DOCTYPE, "com.example.address"}}

\* a call ends: the wallet, the lock and the callback invocations it
\* leaves, what it returns and the services it reached
Answer(op, w, l, invoked, value, contacted) ==
    /\ wallet' = w
    /\ lock' = l
    /\ callback_calls' = invoked
    /\ returned' = Returning(op, value, contacted)
    /\ steps' = steps + 1
    /\ UNCHANGED <<start_vars, wallet_vars, pair_vars>>

\* the checks every issuance operation begins with, locked before registered
PrecheckLockedFirst(w, l) == IF l.is_locked THEN Some("Locked") ELSE IF w.registration = None THEN Some("NotRegistered") ELSE None

\* the checks every issuance operation begins with: Option of the error
Precheck(w, l) == IF w.registration = None THEN Some("NotRegistered") ELSE IF l.is_locked THEN Some("Locked") ELSE None

\* a session check that lets continue pass with any session
MatchesSomeSession(op, issuance_session) == IF op = "create_pid_issuance_auth_url" THEN issuance_session = None ELSE issuance_session # None

\* the session check of each operation: whether it passes
MatchesSession(op, issuance_session) ==
    CASE op = "create_pid_issuance_auth_url" -> issuance_session = None
      [] op = "continue_pid_issuance" -> issuance_session = Some("Digid")
      [] op = "accept_pid_issuance" -> issuance_session = Some("Openid4vci")
      [] op = "cancel_pid_issuance" -> issuance_session # None

\* a query that never finds an mdoc
HasNoMdocs(storage, doc_type) == FALSE

\* Storage::has_any_mdocs_with_doctype
HasAnyMdocsWithDoctype(storage, doc_type) == doc_type \in storage.mdocs

\* a wipe for every error of the issuance
ResetsWalletAlways(error) == TRUE

\* a wipe for a timeout only
ResetsWalletOnTimeout(error) == error = "Instruction(Timeout)"

\* whether accept_pid_issuance wipes the wallet for this error
ResetsWallet(error) == error \in {"Instruction(Timeout)", "Instruction(Blocked)"}

\* RegistrationData: the certificate the account server issued, as its
\* number, and the instruction sequence number
RegistrationData(wallet_certificate, instruction_sequence_number) == [wallet_certificate |-> wallet_certificate, instruction_sequence_number |-> instruction_sequence_number]

\* the storage after Storage::clear
Cleared == [state |-> "Uninitialized", data |-> None, mdocs |-> {}, events |-> <<>>]

\* reset_to_initial_state(): the wallet, the lock and the invocations after it
ResetToInitialState(w, l, invoked) ==
    [wallet |-> [w EXCEPT !.storage = Cleared, !.registration = None, !.issuance_session = None,
                          !.digid_session = None, !.disclosure_session = None],
     lock |-> WalletLockLock(l, invoked).lock,
     invoked |-> WalletLockLock(l, invoked).invoked]

\* create_pid_issuance_auth_url()
CreatePidIssuanceAuthUrl ==
    /\ steps < MaxSteps
    /\ LET op == "create_pid_issuance_auth_url" IN
        IF Precheck(wallet, lock) # None
        THEN Answer(op, wallet, lock, callback_calls, Err(Unwrap(Precheck(wallet, lock))), {})
        ELSE IF ~MatchesSession(op, wallet.issuance_session)
        THEN Answer(op, wallet, lock, callback_calls, Err("SessionState"), {})
        ELSE \E has_query_error \in BOOLEAN, digid_fails \in BOOLEAN :
            IF has_query_error
            THEN Answer(op, wallet, lock, callback_calls, Err("MdocStorage"), {"storage"})
            ELSE IF HasAnyMdocsWithDoctype(wallet.storage, PID_DOCTYPE)
            THEN Answer(op, wallet, lock, callback_calls, Err("PidAlreadyPresent"), {"storage"})
            ELSE IF digid_fails
            THEN Answer(op, wallet, lock, callback_calls, Err("DigidSessionStart"), {"storage", "digid"})
            ELSE Answer(op, [wallet EXCEPT !.issuance_session = Some("Digid")], lock, callback_calls,
                        Ok("auth_url"), {"storage", "digid"})

\* has_active_pid_issuance_session()
HasActivePidIssuanceSession ==
    /\ steps < MaxSteps
    /\ LET op == "has_active_pid_issuance_session" IN
        IF Precheck(wallet, lock) # None
        THEN Answer(op, wallet, lock, callback_calls, Err(Unwrap(Precheck(wallet, lock))), {})
        ELSE Answer(op, wallet, lock, callback_calls, Ok(wallet.issuance_session # None), {})

\* a cancel that puts the session back when the issuer refuses
CancelledKeepingOnError(w, reject_fails) == IF reject_fails /\ w.issuance_session = Some("Openid4vci") THEN w ELSE [w EXCEPT !.issuance_session = None]

\* the wallet after cancel_pid_issuance() took the session
Cancelled(w, reject_fails) == [w EXCEPT !.issuance_session = None]

\* cancel_pid_issuance()
CancelPidIssuance ==
    /\ steps < MaxSteps
    /\ LET op == "cancel_pid_issuance" IN
        IF Precheck(wallet, lock) # None
        THEN Answer(op, wallet, lock, callback_calls, Err(Unwrap(Precheck(wallet, lock))), {})
        ELSE IF ~MatchesSession(op, wallet.issuance_session)
        THEN Answer(op, Cancelled(wallet, FALSE), lock, callback_calls, Err("SessionState"), {})
        ELSE IF wallet.issuance_session = Some("Openid4vci")
        THEN \E reject_fails \in BOOLEAN :
            Answer(op, Cancelled(wallet, reject_fails), lock, callback_calls,
                   IF reject_fails THEN Err("PidIssuer") ELSE Ok(Unit), {"issuer"})
        ELSE Answer(op, Cancelled(wallet, FALSE), lock, callback_calls, Ok(Unit), {})

\* continue_pid_issuance()
ContinuePidIssuance ==
    /\ steps < MaxSteps
    /\ LET op == "continue_pid_issuance"
           taken == [wallet EXCEPT !.issuance_session = None]
       IN
        IF Precheck(wallet, lock) # None
        THEN Answer(op, wallet, lock, callback_calls, Err(Unwrap(Precheck(wallet, lock))), {})
        ELSE IF ~MatchesSession(op, wallet.issuance_session)
        THEN Answer(op, wallet, lock, callback_calls, Err("SessionState"), {})
        ELSE \E fails \in {"none", "into_token_request", "start_issuance", "try_into", "from_unsigned_mdoc"} :
            CASE fails = "into_token_request" ->
                    Answer(op, taken, lock, callback_calls, Err("DigidSessionFinish"), {"digid"})
              [] fails = "start_issuance" ->
                    Answer(op, taken, lock, callback_calls, Err("PidIssuer"), {"digid", "issuer"})
              [] fails = "try_into" ->
                    Answer(op, taken, lock, callback_calls, Err("AttestationPreview"), {"digid", "issuer"})
              [] fails = "from_unsigned_mdoc" ->
                    Answer(op, taken, lock, callback_calls, Err("MdocDocument"), {"digid", "issuer"})
              [] fails = "none" ->
                    Answer(op, [wallet EXCEPT !.issuance_session = Some("Openid4vci")], lock, callback_calls,
                           Ok("documents"), {"digid", "issuer"})

\* the errors accept_issuance() is mapped to
AcceptIssuanceErrors ==
    {"Instruction(IncorrectPin)", "Instruction(Timeout)", "Instruction(Blocked)",
     "Instruction(InstructionValidation)", "Signature", "KeyNotFound", "MissingSignature", "PidIssuer"}

\* accept_pid_issuance()
AcceptPidIssuance ==
    /\ steps < MaxSteps
    /\ LET op == "accept_pid_issuance"
           taken == [wallet EXCEPT !.issuance_session = None]
           wiped == ResetToInitialState(wallet, lock, callback_calls)
       IN
        IF Precheck(wallet, lock) # None
        THEN Answer(op, wallet, lock, callback_calls, Err(Unwrap(Precheck(wallet, lock))), {})
        ELSE IF ~MatchesSession(op, wallet.issuance_session)
        THEN Answer(op, wallet, lock, callback_calls, Err("SessionState"), {})
        ELSE
            \/ \E error \in AcceptIssuanceErrors :
                IF ResetsWallet(error)
                THEN Answer(op, wiped.wallet, wiped.lock, wiped.invoked, Err(error), {"issuer", "account", "storage"})
                ELSE Answer(op, wallet, lock, callback_calls, Err(error), {"issuer", "account"})
            \/ \E issued \in IssuedDocTypes,
                  fails \in {"none", "issuer_certificate", "from_certificate", "insert_mdocs",
                             "store_history_event", "emit_documents"} :
                LET stored == [taken EXCEPT !.storage.mdocs = @ \cup issued]
                    logged == [stored EXCEPT !.storage.events = Append(@, "Issuance")]
                IN  CASE fails = "issuer_certificate" ->
                            Answer(op, taken, lock, callback_calls, Err("InvalidIssuerCertificate"), {"issuer", "account"})
                      [] fails = "from_certificate" ->
                            Answer(op, taken, lock, callback_calls, Err("MissingIssuerRegistration"), {"issuer", "account"})
                      [] fails = "insert_mdocs" ->
                            Answer(op, taken, lock, callback_calls, Err("MdocStorage"), {"issuer", "account", "storage"})
                      [] fails = "store_history_event" ->
                            Answer(op, stored, lock, callback_calls, Err("EventStorage"), {"issuer", "account", "storage"})
                      [] fails = "emit_documents" ->
                            Answer(op, logged, lock, callback_calls, Err("Document"), {"issuer", "account", "storage"})
                      [] fails = "none" ->
                            Answer(op, logged, lock, callback_calls, Ok(Unit), {"issuer", "account", "storage"})

\* the fields reset() takes, and the issuer after the rejection
Wiped(w, rejected) == [w EXCEPT !.storage = Cleared, !.digid_session = None, !.disclosure_session = None, !.registration = None, !.pid_issuer.has_session = @ /\ ~rejected]

\* what a call of reset() leaves and returns
Left(w, l, invoked, value, contacted) == [wallet |-> w, lock |-> l, invoked |-> invoked, result |-> value, contacted |-> contacted]

\* a reset() that hands the failure of the rejection to its caller
WalletResetPropagating(w, l, invoked, clear_fails, reject_fails) ==
    IF w.registration = None THEN Left(w, l, invoked, Err("NotRegistered"), {})
    ELSE IF clear_fails THEN Left(w, l, invoked, Err("ClearDatabase"), {"storage"})
    ELSE IF w.pid_issuer.has_session /\ reject_fails
    THEN Left(Wiped(w, FALSE), l, invoked, Err("PidIssuer"), {"storage", "issuer"})
    ELSE Left(Wiped(w, TRUE), WalletLockLock(l, invoked).lock, WalletLockLock(l, invoked).invoked, Ok(Unit),
              IF w.pid_issuer.has_session THEN {"storage", "issuer"} ELSE {"storage"})

\* a reset() that takes the sessions and the registration before it clears
\* the database
WalletResetTakingFirst(w, l, invoked, clear_fails, reject_fails) ==
    IF w.registration = None THEN Left(w, l, invoked, Err("NotRegistered"), {})
    ELSE IF clear_fails
    THEN Left([w EXCEPT !.digid_session = None, !.disclosure_session = None, !.registration = None], l, invoked,
              Err("ClearDatabase"), {"storage"})
    ELSE Left(Wiped(w, ~reject_fails), WalletLockLock(l, invoked).lock, WalletLockLock(l, invoked).invoked, Ok(Unit),
              IF w.pid_issuer.has_session THEN {"storage", "issuer"} ELSE {"storage"})

\* a reset() that leaves the lock as it is
WalletResetWithoutLock(w, l, invoked, clear_fails, reject_fails) ==
    IF w.registration = None THEN Left(w, l, invoked, Err("NotRegistered"), {})
    ELSE IF clear_fails THEN Left(w, l, invoked, Err("ClearDatabase"), {"storage"})
    ELSE Left(Wiped(w, ~reject_fails), l, invoked, Ok(Unit),
              IF w.pid_issuer.has_session THEN {"storage", "issuer"} ELSE {"storage"})

\* Wallet::reset(), given whether clearing the database and rejecting the PID fail
WalletReset(w, l, invoked, clear_fails, reject_fails) ==
    IF w.registration = None THEN Left(w, l, invoked, Err("NotRegistered"), {})
    ELSE IF clear_fails THEN Left(w, l, invoked, Err("ClearDatabase"), {"storage"})
    ELSE Left(Wiped(w, ~reject_fails), WalletLockLock(l, invoked).lock, WalletLockLock(l, invoked).invoked, Ok(Unit),
              IF w.pid_issuer.has_session THEN {"storage", "issuer"} ELSE {"storage"})

\* reset()
Reset ==
    /\ steps < MaxSteps
    /\ \E clear_fails \in BOOLEAN, reject_fails \in BOOLEAN :
        LET left == WalletReset(wallet, lock, callback_calls, clear_fails, reject_fails)
        IN  Answer("reset", left.wallet, left.lock, left.invoked, left.result, left.contacted)

\* a wallet as it is made: with or without registration, the storage opened
\* when it has one, the PID in it or not, no session
NewWallet(registered, has_pid) ==
    [registration |-> IF registered THEN Some(RegistrationData(1, 0)) ELSE None,
     account_server |-> [certificates |-> IF registered THEN 1 ELSE 0, received |-> <<>>],
     storage |-> IF registered
                 THEN [state |-> "Opened",
                       data |-> Some(RegistrationData(1, 0)),
                       mdocs |-> IF has_pid THEN {PID_DOCTYPE} ELSE {},
                       events |-> IF has_pid THEN <<"Issuance">> ELSE <<>>]
                 ELSE Cleared,
     issuance_session |-> None,
     digid_session |-> None,
     disclosure_session |-> None,
     pid_issuer |-> [has_session |-> FALSE]]

\* no call is made on a lock or a wallet
IssuanceIdle ==
    /\ lock = WalletLockNew(TRUE)
    /\ callback_calls = <<>>
    /\ wallet = NewWallet(FALSE, FALSE)
    /\ returned = Returning("new", Ok(Unit), {})
    /\ steps = 0

-----------------------------------------------------------------------------
(* Registration and unlocking of the wallet (wallet/src/wallet.rs) *)

\* the PINs a user may enter
Pins == {"112233", "123456"}

\* validate_pin: whether the PIN adheres to the requirements
ValidatePin(pin) == pin # "123456"

\* the account server receives a message signed with the sequence number
\* of the registration; kept with what the storage holds at that moment
Sent(w, kind) == [w EXCEPT !.account_server.received = Append(@, [kind |-> kind, wallet_certificate |-> Unwrap(w.registration).wallet_certificate, instruction_sequence_number |-> Unwrap(w.registration).instruction_sequence_number, stored |-> w.storage.data])]

\* an increment that writes the number the storage already has
IncrementSequenceNumberNot(w, fails) == [wallet |-> w, ok |-> fails = "none"]

\* increment_sequence_number(): the wallet after it and whether it succeeded
IncrementSequenceNumber(w, fails) ==
    LET incremented == [w EXCEPT !.registration[1].instruction_sequence_number = @ + 1]
    IN  CASE fails = "state" -> [wallet |-> w, ok |-> FALSE]
          [] fails = "update_data" -> [wallet |-> incremented, ok |-> FALSE]
          [] OTHER -> [wallet |-> [incremented EXCEPT !.storage.data = incremented.registration], ok |-> TRUE]

\* where a call of unlock() may fail
UnlockFailures ==
    {"none", "state_1", "update_data_1", "new_signed_1", "instruction_challenge",
     "state_2", "update_data_2", "new_signed_2",
     "IncorrectPin", "Timeout", "Blocked", "InstructionValidation", "ServerError", "parse_and_verify"}

\* Wallet::unlock(), given where it fails
WalletUnlock(w, l, invoked, fails) ==
    LET first == IncrementSequenceNumber(w, IF fails = "state_1" THEN "state" ELSE IF fails = "update_data_1" THEN "update_data" ELSE "none")
        asked == Sent(first.wallet, "instruction_challenge")
        second == IncrementSequenceNumber(asked, IF fails = "state_2" THEN "state" ELSE IF fails = "update_data_2" THEN "update_data" ELSE "none")
        checked == Sent(second.wallet, "check_pin")
    IN  IF w.registration = None THEN Left(w, l, invoked, Err("NotRegistered"), {})
        ELSE IF ~first.ok THEN Left(first.wallet, l, invoked, Err("StoreInstructionSequenceNumber"), {"storage"})
        ELSE IF fails = "new_signed_1" THEN Left(first.wallet, l, invoked, Err("Signing"), {"storage"})
        ELSE IF fails = "instruction_challenge"
        THEN Left(asked, l, invoked, Err("ChallengeRequest"), {"storage", "account_server"})
        ELSE IF ~second.ok
        THEN Left(second.wallet, l, invoked, Err("StoreInstructionSequenceNumber"), {"storage", "account_server"})
        ELSE IF fails = "new_signed_2" THEN Left(second.wallet, l, invoked, Err("Signing"), {"storage", "account_server"})
        ELSE IF fails \in {"IncorrectPin", "Timeout", "Blocked", "InstructionValidation", "ServerError"}
        THEN Left(checked, l, invoked, Err(fails), {"storage", "account_server"})
        ELSE IF fails = "parse_and_verify"
        THEN Left(checked, l, invoked, Err("InstructionResultValidation"), {"storage", "account_server"})
        ELSE Left(checked, WalletLockUnlock(l, invoked).lock, WalletLockUnlock(l, invoked).invoked, Ok(Unit),
                  {"storage", "account_server"})

\* unlock(pin)
UnlockWithPin ==
    /\ steps < MaxSteps
    /\ \E fails \in UnlockFailures :
        LET left == WalletUnlock(wallet, lock, callback_calls, fails)
        IN  Answer("unlock", left.wallet, left.lock, left.invoked, left.result, left.contacted)

\* where a call of register() may fail, and with which error
RegisterFailures ==
    [registration_challenge |-> "ChallengeRequest", verifying_key |-> "HardwarePublicKey",
     new_signed |-> "Signing", register |-> "RegistrationRequest",
     parse_and_verify |-> "CertificateValidation", hw_pubkey |-> "PublicKeyMismatch",
     open |-> "StoreCertificate", insert_data |-> "StoreCertificate"]

\* a register() that unlocks as soon as the certificate is verified
WalletRegisterUnlockingEarly(w, l, invoked, pin, fails) ==
    LET certified == [w EXCEPT !.account_server.certificates = @ + 1]
        data == RegistrationData(certified.account_server.certificates, 0)
        unlocked == WalletLockUnlock(l, invoked)
    IN  IF w.registration # None THEN Left(w, l, invoked, Err("AlreadyRegistered"), {})
        ELSE IF ~ValidatePin(pin) THEN Left(w, l, invoked, Err("InvalidPin"), {})
        ELSE IF fails \in {"open", "insert_data"}
        THEN Left(certified, unlocked.lock, unlocked.invoked, Err("StoreCertificate"), {"account_server", "storage"})
        ELSE IF fails \in DOMAIN RegisterFailures
        THEN Left(w, l, invoked, Err(RegisterFailures[fails]), {"account_server"})
        ELSE Left([certified EXCEPT !.storage.state = "Opened", !.storage.data = Some(data), !.registration = Some(data)],
                  unlocked.lock, unlocked.invoked, Ok(Unit), {"account_server", "storage"})

\* Wallet::register(), given the PIN and where it fails
WalletRegister(w, l, invoked, pin, fails) ==
    LET certified == [w EXCEPT !.account_server.certificates = @ + 1]
        opened == [certified EXCEPT !.storage.state = "Opened"]
        data == RegistrationData(certified.account_server.certificates, 0)
    IN  IF w.registration # None THEN Left(w, l, invoked, Err("AlreadyRegistered"), {})
        ELSE IF ~ValidatePin(pin) THEN Left(w, l, invoked, Err("InvalidPin"), {})
        ELSE IF fails \in {"registration_challenge", "verifying_key", "new_signed", "register"}
        THEN Left(w, l, invoked, Err(RegisterFailures[fails]), {"account_server"})
        ELSE IF fails \in {"parse_and_verify", "hw_pubkey"}
        THEN Left(certified, l, invoked, Err(RegisterFailures[fails]), {"account_server"})
        ELSE IF fails = "open"
        THEN Left(certified, l, invoked, Err("StoreCertificate"), {"account_server", "storage"})
        ELSE IF fails = "insert_data"
        THEN Left(opened, l, invoked, Err("StoreCertificate"), {"account_server", "storage"})
        ELSE Left([opened EXCEPT !.storage.data = Some(data), !.registration = Some(data)],
                  WalletLockUnlock(l, invoked).lock, WalletLockUnlock(l, invoked).invoked, Ok(Unit),
                  {"account_server", "storage"})

\* register(pin)
Register ==
    /\ steps < MaxSteps
    /\ \E pin \in Pins, fails \in (DOMAIN RegisterFailures) \cup {"none"} :
        LET left == WalletRegister(wallet, lock, callback_calls, pin, fails)
        IN  Answer("register", left.wallet, left.lock, left.invoked, left.result, left.contacted)

-----------------------------------------------------------------------------
(* Specifications *)

\* no start() call has begun
StartIdle ==
    /\ pc = "idle"
    /\ session_type = "SameDevice"
    /\ reader_engagement_bytes = <<>>
    /\ reader_engagement = None
    /\ ephemeral_privkey = None
    /\ transcript = None
    /\ session_keys = None
    /\ posts = <<>>
    /\ session_data = None
    /\ device_request = None
    /\ verify_result = None
    /\ queries = <<>>
    /\ mdocs = None
    /\ matched = None
    /\ result = Pending
    /\ session = None

Init ==
    /\ StartIdle
    /\ WalletIdle
    /\ PairIdle
    /\ IssuanceIdle

Next ==
    \/ StartEngage
    \/ StartReceive
    \/ StartMatch(FlowStores)

\* the session flow: one call of start() from its begin
Spec == Init /\ [][Next]_vars

\* The states in which start() waits for the mdoc data source, for one
\* engagement and every DeviceRequest of MatchDeviceRequests that passed
\* reader authentication.
InitMatch ==
    LET engagement == NewReaderEngagement(SESSION_URL)
        device_engagement == NewDeviceEngagement(REFERRER_URL, "d1")
        derived == Unwrap(TranscriptAndKeysForDeviceEngagement(
                            engagement, "SameDevice", device_engagement, "d1").value)
    IN  \E request \in MatchDeviceRequests(derived.transcript) :
        LET checked == DeviceRequestVerify(request.doc_requests, derived.transcript,
                                           TrustAnchors)
        IN  /\ request.doc_requests # <<>>
            /\ checked.ok
            /\ Unwrap(checked.value) # None
            /\ pc = "fetching"
            /\ session_type = "SameDevice"
            /\ reader_engagement_bytes = CborSerialize(engagement)
            /\ reader_engagement = Some(engagement)
            /\ ephemeral_privkey = Some("d1")
            /\ transcript = Some(derived.transcript)
            /\ session_keys = Some([reader_key |-> derived.reader_key,
                                    device_key |-> derived.device_key])
            /\ posts = <<<<Unwrap(VerifierUrl(engagement).value), device_engagement>>>>
            /\ session_data = Some(SerializeAndEncrypt(request, derived.reader_key))
            /\ device_request = Some(request)
            /\ verify_result = Some(checked)
            /\ queries = <<RequestDocTypes(request.doc_requests)>>
            /\ mdocs = None
            /\ matched = None
            /\ result = Pending
            /\ session = None
            /\ WalletIdle
            /\ PairIdle
            /\ IssuanceIdle

NextMatch == StartMatch(MatchStores)

\* matching: the last step of start(), for every request and every store
SpecMatch == InitMatch /\ [][NextMatch]_vars

\* The states in which start() waits for the answer to its post, for one
\* reader engagement and both flow types.
InitReplay ==
    LET engagement == NewReaderEngagement(SESSION_URL)
        device_engagement == NewDeviceEngagement(REFERRER_URL, "d1")
    IN  \E type \in SessionTypes :
        LET derived == Unwrap(TranscriptAndKeysForDeviceEngagement(
                                engagement, type, device_engagement, "d1").value)
        IN  /\ pc = "posting"
            /\ session_type = type
            /\ reader_engagement_bytes = CborSerialize(engagement)
            /\ reader_engagement = Some(engagement)
            /\ ephemeral_privkey = Some("d1")
            /\ transcript = Some(derived.transcript)
            /\ session_keys = Some([reader_key |-> derived.reader_key,
                                    device_key |-> derived.device_key])
            /\ posts = <<<<Unwrap(VerifierUrl(engagement).value), device_engagement>>>>
            /\ session_data = None
            /\ device_request = None
            /\ verify_result = None
            /\ queries = <<>>
            /\ mdocs = None
            /\ matched = None
            /\ result = Pending
            /\ session = None
            /\ WalletIdle
            /\ PairIdle
            /\ IssuanceIdle

NextReplay ==
    \/ StartReceiveReplayed
    \/ StartMatch(FlowStores)

\* reader authentication: start() from its post on, for every DeviceRequest
\* of ReplayedDeviceRequests
SpecReplay == InitReplay /\ [][NextReplay]_vars

\* the states of InitMatch in which every DocRequest asks for attributes
InitCandidates ==
    /\ InitMatch
    /\ \A i \in 1..Len(Unwrap(device_request).doc_requests) :
            Unwrap(device_request).doc_requests[i].items_request.name_spaces # <<>>

NextCandidates == StartMatch(CandidateStores)

\* matching and the test for several candidates, for requests that ask for
\* attributes and stores of mdocs that hold every attribute
SpecCandidates == InitCandidates /\ [][NextCandidates]_vars

\* a wallet built with one of the three session types; for the mock, what
\* next_start_error() and next_fields() stored before start()
InitSession ==
    /\ StartIdle
    /\ implementation \in Implementations
    /\ NEXT_START_ERROR \in (IF implementation = "Mock" THEN {None, Some("Error")} ELSE {None})
    /\ NEXT_MOCK_FIELDS \in (IF implementation = "Mock" THEN MockFields ELSE {None})
    /\ disclosure_session = None
    /\ disclosure_count = 0
    /\ was_terminated = FALSE
    /\ calls = <<>>
    /\ PairIdle
    /\ IssuanceIdle

NextSession ==
    \/ SessionStart
    \/ SessionQuery
    \/ SessionDisclose
    \/ SessionTerminate

\* the calls a wallet makes on one disclosure session
SpecSession == InitSession /\ [][NextSession]_vars

\* two calls of start(), each with its own arguments, key and verifier
\* answer, on one data source
InitPair ==
    /\ StartIdle
    /\ WalletIdle
    /\ pairs \in [Sessions -> {StartLocal(input) : input \in PairInputs}]
    /\ mdoc_data_source \in PairStores
    /\ IssuanceIdle

\* the interleavings of the two calls
SpecPair == InitPair /\ [][PairStep]_vars

\* a wallet with or without registration, locked or not, with or without
\* the PID, on which issuance and lock operations are called
InitIssuance ==
    /\ StartIdle
    /\ WalletIdle
    /\ PairIdle
    /\ lock \in {WalletLockNew(is_locked) : is_locked \in BOOLEAN}
    /\ callback_calls = <<>>
    /\ wallet \in {NewWallet(registered, has_pid) : registered \in BOOLEAN, has_pid \in BOOLEAN}
    /\ returned = Returning("new", Ok(Unit), {})
    /\ steps = 0

\* the operations of the lock and of PID issuance, in any order
SpecIssuance == InitIssuance /\ [][Lock \/ Unlock \/ SetLockCallback \/ ClearLockCallback \/ CreatePidIssuanceAuthUrl \/ HasActivePidIssuanceSession \/ CancelPidIssuance \/ ContinuePidIssuance \/ AcceptPidIssuance]_vars

\* a wallet of the version reset() is written for: with or without a DigiD
\* session, a disclosure session and a session at the PID issuer
InitReset ==
    /\ StartIdle
    /\ WalletIdle
    /\ PairIdle
    /\ lock \in {[WalletLockNew(is_locked) EXCEPT !.update_callback = callback] : is_locked \in BOOLEAN, callback \in {None, Some("f")}}
    /\ callback_calls = <<>>
    /\ wallet \in {[NewWallet(registered, has_pid) EXCEPT !.digid_session = digid, !.disclosure_session = disclosure, !.pid_issuer.has_session = pending] :
                    registered \in BOOLEAN, has_pid \in BOOLEAN, digid \in {None, Some("Digid")},
                    disclosure \in {None, Some("Disclosure")}, pending \in BOOLEAN}
    /\ returned = Returning("new", Ok(Unit), {})
    /\ steps = 0

\* reset(), lock() and unlock() on such a wallet
SpecReset == InitReset /\ [][Reset \/ Lock \/ Unlock]_vars


\* a wallet as Wallet::init leaves it: locked, with the registration the
\* storage holds, if any
InitWallet ==
    /\ StartIdle
    /\ WalletIdle
    /\ PairIdle
    /\ lock \in {[WalletLockNew(TRUE) EXCEPT !.update_callback = callback] : callback \in {None, Some("f")}}
    /\ callback_calls = <<>>
    /\ wallet \in {NewWallet(registered, FALSE) : registered \in BOOLEAN}
    /\ returned = Returning("new", Ok(Unit), {})
    /\ steps = 0

\* register(), unlock(), lock() and reset() in any order
SpecWallet == InitWallet /\ [][Register \/ UnlockWithPin \/ Lock \/ Reset]_vars

-----------------------------------------------------------------------------
(* What the claims speak about *)

\* the DocRequests of the decrypted DeviceRequest
TheDocRequests == Unwrap(device_request).doc_requests

\* the doc types some DocRequest names
RequestedDocTypes ==
    {TheDocRequests[i].items_request.doc_type : i \in 1..Len(TheDocRequests)}

\* R: the identifiers some DocRequest of the doc type asks for
RequestedFor(doc_type) ==
    {id \in AllIdentifiers :
        /\ id.doc_type = doc_type
        /\ \E i \in 1..Len(TheDocRequests) :
            LET items_request == TheDocRequests[i].items_request
            IN  /\ items_request.doc_type = doc_type
                /\ \E k \in 1..Len(items_request.name_spaces) :
                    /\ items_request.name_spaces[k][1] = id.namespace
                    /\ id.attribute \in Range(items_request.name_spaces[k][2])}

\* the issuer signed items of an mdoc, in their order, each with its name space
ItemsOf(mdoc) ==
    IF mdoc.issuer_signed.name_spaces = None THEN <<>>
    ELSE LET name_spaces == Unwrap(mdoc.issuer_signed.name_spaces)
         IN  Flatten([k \in 1..Len(name_spaces) |->
                        [j \in 1..Len(name_spaces[k][2]) |->
                            [namespace |-> name_spaces[k][1],
                             name |-> name_spaces[k][2][j].element_identifier,
                             value |-> name_spaces[k][2][j].element_value]]])

\* A: the identifiers issuer-signed in an mdoc
HeldIn(mdoc) ==
    {AttributeIdentifier(mdoc.doc_type, ItemsOf(mdoc)[j].namespace, ItemsOf(mdoc)[j].name) :
        j \in 1..Len(ItemsOf(mdoc))}

\* the mdocs the data source returned
ReturnedMdocs == Flatten(Unwrap(mdocs))

\* the data source kept its contract: every Vec holds mdocs of one requested
\* doc type and no two non-empty Vecs are of the same doc type
ContractKept ==
    LET groups == Unwrap(mdocs)
    IN  /\ \A g \in 1..Len(groups) : \A i \in 1..Len(groups[g]) :
            /\ groups[g][i].doc_type \in RequestedDocTypes
            /\ groups[g][i].doc_type = groups[g][1].doc_type
        /\ \A g, h \in 1..Len(groups) :
            (g # h /\ groups[g] # <<>> /\ groups[h] # <<>>)
                => groups[g][1].doc_type # groups[h][1].doc_type

\* the candidates matching found, of all doc types
CandidatesFound ==
    LET found == Unwrap(matched)
    IN  UNION {Range(found.candidates[t]) : t \in DOMAIN found.candidates}

\* the mdoc became a ProposedDocument candidate of its doc type
IsCandidate(mdoc) ==
    \E document \in CandidatesFound :
        /\ document.doc_type = mdoc.doc_type
        /\ document.private_key_id = mdoc.private_key_id

\* an mdoc holds everything that is requested of its doc type
Satisfies(mdoc) == RequestedFor(mdoc.doc_type) \subseteq HeldIn(mdoc)

-----------------------------------------------------------------------------
(* Claims *)

\* C1: for every requested doc type T with requested set R and every mdoc m
\* of type T that the data source returned, m becomes a ProposedDocument
\* candidate for T iff R is a subset of the attributes issuer-signed in m.
\* Fails: when no attribute is requested of T (R is empty, so R is a subset
\* of every A) the mdocs of T make matching panic and none is a candidate.
C1_CandidateIffSubset ==
    (matched # None /\ ContractKept) =>
        \A i \in 1..Len(ReturnedMdocs) :
            IsCandidate(ReturnedMdocs[i]) <=> Satisfies(ReturnedMdocs[i])

\* C2: match_stored_documents returns Candidates only if every doc type
\* named by a DocRequest is a key of the returned map with at least one
\* ProposedDocument; in every other case it returns MissingAttributes.
\* Fails: a doc type of which no attribute is requested is no key of the map
\* when the source holds none of it, and makes matching panic when it does.
C2_CandidatesIffEveryTypeMatched ==
    (matched # None /\ ContractKept) =>
        LET found == Unwrap(matched)
            every_type_matched ==
                \A t \in RequestedDocTypes :
                    t \in DOMAIN found.candidates /\ Len(found.candidates[t]) >= 1
        IN  /\ found.kind = "Candidates" <=> every_type_matched
            /\ found.kind # "Candidates" => found.kind = "MissingAttributes"

\* C3: when matching reports MissingAttributes, a requested doc type
\* contributes identifiers to the missing set iff no mdoc of that type the
\* source returned holds all attributes requested of it (or none is
\* returned); a type with a satisfying mdoc contributes nothing.  Stated for
\* the doc types of which some attribute is requested.
\* Fails: the missing attributes of the first non-satisfying mdoc of a type
\* are reported although another mdoc of the type satisfies the request.
C3_MissingIffNoSatisfyingMdoc ==
    (matched # None /\ ContractKept /\ Unwrap(matched).kind = "MissingAttributes") =>
        \A t \in RequestedDocTypes :
            RequestedFor(t) # {} =>
                ((\E id \in Range(Unwrap(matched).missing_attributes) : id.doc_type = t)
                 <=> ~ \E i \in 1..Len(ReturnedMdocs) :
                        ReturnedMdocs[i].doc_type = t /\ Satisfies(ReturnedMdocs[i]))

\* the attributes a ProposedDocument exposes, name space by name space
ExposedBy(name_spaces) ==
    Flatten([k \in 1..Len(name_spaces) |->
                [j \in 1..Len(name_spaces[k][2]) |->
                    [namespace |-> name_spaces[k][1],
                     name |-> name_spaces[k][2][j].name,
                     value |-> name_spaces[k][2][j].value]]])

\* the issuer signed items of an mdoc that are requested, in the mdoc's order
RequestedItemsOf(mdoc) ==
    SelectSeq(ItemsOf(mdoc),
        LAMBDA item : AttributeIdentifier(mdoc.doc_type, item.namespace, item.name)
                        \in RequestedFor(mdoc.doc_type))

\* C4: the attributes a ProposedDocument exposes (per name space, and by
\* proposed_attributes() of a session) are exactly the issuer-signed
\* attributes of its mdoc whose identifier is requested, in the mdoc's order.
C4_ProposedAttributesAreRequestedItems ==
    /\ matched # None =>
            \A document \in CandidatesFound :
                \E i \in 1..Len(ReturnedMdocs) :
                    /\ ReturnedMdocs[i].doc_type = document.doc_type
                    /\ ReturnedMdocs[i].private_key_id = document.private_key_id
                    /\ ExposedBy(ProposedNameSpaces(document))
                            = RequestedItemsOf(ReturnedMdocs[i])
    /\ session # None =>
            LET proposed == ProposedAttributes(Unwrap(session))
            IN  \A k \in 1..Len(proposed) :
                    \E i \in 1..Len(ReturnedMdocs) :
                        /\ ReturnedMdocs[i].doc_type = proposed[k][1]
                        /\ ExposedBy(proposed[k][2]) = RequestedItemsOf(ReturnedMdocs[i])

\* C4 witness: a session proposes two of the three attributes of an mdoc
C4_Witness ==
    /\ session # None
    /\ \E i \in 1..Len(ReturnedMdocs) :
        /\ IsCandidate(ReturnedMdocs[i])
        /\ Len(ItemsOf(ReturnedMdocs[i])) = 3
        /\ Len(RequestedItemsOf(ReturnedMdocs[i])) = 2

\* C5: a DisclosureSession that start() returned holds no two proposed
\* documents of the same doc type, one for each doc type of which attributes
\* are requested and none of another doc type.
C5_OneProposalPerDocType ==
    session # None =>
        LET documents == Unwrap(session).proposed_documents
        IN  /\ \A i, j \in 1..Len(documents) :
                i # j => documents[i].doc_type # documents[j].doc_type
            /\ \A i \in 1..Len(documents) : documents[i].doc_type \in RequestedDocTypes
            /\ \A t \in RequestedDocTypes :
                RequestedFor(t) # {} =>
                    \E i \in 1..Len(documents) : documents[i].doc_type = t

\* C5 witness: a session with a proposed document of each of two doc types
C5_Witness ==
    /\ session # None
    /\ Len(Unwrap(session).proposed_documents) = 2
    /\ Len(ReturnedMdocs) = 2

\* a DocRequest carries a signature made over this session's transcript and
\* its own ItemsRequest, with the key of a certificate a trust anchor issued
ValidlySigned(doc_request) ==
    /\ doc_request.reader_auth # None
    /\ Unwrap(doc_request.reader_auth).signed_payload
            = <<"ReaderAuthentication", Unwrap(transcript), doc_request.items_request>>
    /\ Unwrap(doc_request.reader_auth).signing_cert.issuer \in TrustAnchors

\* C6: start() returns a session only if in this call the engagement
\* decoded with a verifier URL and key, the DeviceRequest decrypted and was
\* non-empty, reader authentication verified and gave the session's
\* ReaderRegistration, and matching gave exactly one candidate for every
\* matched doc type; a call that ends with an error or a panic returns no
\* session, and an unfinished call has none either.
C6_SessionOnlyAfterEveryStep ==
    /\ session # None =>
        /\ pc = "done" /\ result.status = "Ok"
        /\ reader_engagement # None
        /\ Unwrap(reader_engagement).connection_methods # None
        /\ Unwrap(Unwrap(reader_engagement).connection_methods) # <<>>
        /\ Unwrap(session).verifier_url
                = Unwrap(Unwrap(reader_engagement).connection_methods)[1]
        /\ Unwrap(reader_engagement).security # None
        /\ session_data # None /\ Unwrap(session_data).data # None
        /\ Unwrap(Unwrap(session_data).data)
                = <<"encrypted", Unwrap(session_keys).reader_key,
                    <<"cbor", Unwrap(device_request)>> >>
        /\ TheDocRequests # <<>>
        /\ \A i \in 1..Len(TheDocRequests) :
            /\ ValidlySigned(TheDocRequests[i])
            /\ Unwrap(TheDocRequests[i].reader_auth).signing_cert.registration
                    = Some(Unwrap(session).reader_registration)
        /\ matched # None /\ Unwrap(matched).kind = "Candidates"
        /\ \A t \in DOMAIN Unwrap(matched).candidates :
                Len(Unwrap(matched).candidates[t]) = 1
        /\ \A t \in RequestedDocTypes : t \in DOMAIN Unwrap(matched).candidates
    /\ result.status # "Ok" => session = None
    /\ (pc = "done" /\ session = None) => result.status \in {"Err", "Panic"}

\* C7: DeviceRequest.verify on a request of which at least one but not all
\* DocRequests carry reader authentication fails with ReaderAuthMissing,
\* whatever the signatures that are present and wherever the unsigned
\* DocRequest stands; start() ends with that error.
C7_PartlySignedIsReaderAuthMissing ==
    (/\ device_request # None
     /\ \E i \in 1..Len(TheDocRequests) : TheDocRequests[i].reader_auth = None
     /\ \E i \in 1..Len(TheDocRequests) : TheDocRequests[i].reader_auth # None)
        => /\ verify_result = Some(Err("ReaderAuthMissing"))
           /\ result = Failed("ReaderAuthMissing")
           /\ session = None

\* C7 witness: the first DocRequest carries a signature that does not
\* verify, the last carries none
C7_Witness ==
    /\ device_request # None
    /\ Len(TheDocRequests) >= 2
    /\ TheDocRequests[1].reader_auth # None
    /\ ~ValidlySigned(TheDocRequests[1])
    /\ TheDocRequests[Len(TheDocRequests)].reader_auth = None
    /\ result = Failed("ReaderAuthMissing")

\* C8: if no DocRequest carries reader authentication, DeviceRequest.verify
\* returns None without error, start() rejects the request with
\* ReaderAuthMissing and no session is established.  (A DeviceRequest
\* without any DocRequest is rejected before, with NoDocumentRequests.)
C8_UnsignedIsRejected ==
    (/\ device_request # None
     /\ \A i \in 1..Len(TheDocRequests) : TheDocRequests[i].reader_auth = None)
        => /\ DeviceRequestVerify(TheDocRequests, Unwrap(transcript), TrustAnchors)
                = Ok(None)
           /\ session = None
           /\ result.status = "Err"
           /\ TheDocRequests # <<>> =>
                /\ verify_result = Some(Ok(None))
                /\ result = Failed("ReaderAuthMissing")

\* C8 witness: start() has rejected a request of two unsigned DocRequests
C8_Witness ==
    /\ device_request # None
    /\ Len(TheDocRequests) = 2
    /\ \A i \in 1..Len(TheDocRequests) : TheDocRequests[i].reader_auth = None
    /\ result = Failed("ReaderAuthMissing")

\* C9: DeviceRequest.verify succeeds only if the signing certificates of all
\* DocRequests are identical; when every DocRequest carries a valid
\* signature but two were signed with different certificates, it fails with
\* ReaderAuthsInconsistent.
C9_DifferentCertificatesAreInconsistent ==
    device_request # None =>
        /\ (verify_result # None /\ Unwrap(verify_result).ok) =>
                \A i, j \in 1..Len(TheDocRequests) :
                    TheDocRequests[i].reader_auth # None =>
                        /\ TheDocRequests[j].reader_auth # None
                        /\ Unwrap(TheDocRequests[i].reader_auth).signing_cert
                            = Unwrap(TheDocRequests[j].reader_auth).signing_cert
        /\ (/\ \A i \in 1..Len(TheDocRequests) : ValidlySigned(TheDocRequests[i])
            /\ \E i, j \in 1..Len(TheDocRequests) :
                    Unwrap(TheDocRequests[i].reader_auth).signing_cert
                        # Unwrap(TheDocRequests[j].reader_auth).signing_cert)
                => /\ verify_result = Some(Err("ReaderAuthsInconsistent"))
                   /\ result = Failed("ReaderAuthsInconsistent")
                   /\ session = None

\* C9 witness: two DocRequests validly signed with two reader certificates
C9_Witness ==
    /\ device_request # None
    /\ Len(TheDocRequests) = 2
    /\ ValidlySigned(TheDocRequests[1]) /\ ValidlySigned(TheDocRequests[2])
    /\ Unwrap(TheDocRequests[1].reader_auth).signing_cert = CertA
    /\ Unwrap(TheDocRequests[2].reader_auth).signing_cert = CertB
    /\ result = Failed("ReaderAuthsInconsistent")

\* C10: DeviceRequest.verify returns a ReaderRegistration only if every
\* requested identifier is in its authorized set; a request for an attribute
\* outside it fails verification, and no session proposes an attribute the
\* session's registration does not authorize.
C10_OnlyAuthorizedAttributes ==
    /\ (verify_result # None /\ Unwrap(verify_result).ok
            /\ Unwrap(Unwrap(verify_result).value) # None) =>
            \A t \in RequestedDocTypes :
                RequestedFor(t) \subseteq
                    Unwrap(Unwrap(Unwrap(verify_result).value)).attributes
    /\ session # None =>
            \A i \in 1..Len(Unwrap(session).proposed_documents) :
                LET document == Unwrap(session).proposed_documents[i]
                    exposed == ExposedBy(ProposedNameSpaces(document))
                IN  \A j \in 1..Len(exposed) :
                        AttributeIdentifier(document.doc_type, exposed[j].namespace,
                                            exposed[j].name)
                            \in Unwrap(session).reader_registration.attributes

\* C10 witness: a validly signed request for an attribute its reader is not
\* authorized for has failed verification
C10_Witness ==
    /\ device_request # None
    /\ \A i \in 1..Len(TheDocRequests) :
        /\ ValidlySigned(TheDocRequests[i])
        /\ Unwrap(TheDocRequests[i].reader_auth).signing_cert = CertA
    /\ \E t \in RequestedDocTypes :
        ~(RequestedFor(t) \subseteq Unwrap(CertA.registration).attributes)
    /\ verify_result = Some(Err("ReaderRegistrationValidation"))
    /\ session = None

\* the returned mdocs of a doc type that hold everything requested of it
ViableOf(doc_type) ==
    {i \in 1..Len(ReturnedMdocs) :
        /\ ReturnedMdocs[i].doc_type = doc_type
        /\ Satisfies(ReturnedMdocs[i])}

\* the requested doc types with two or more viable mdocs
AmbiguousDocTypes ==
    {t \in RequestedDocTypes : Cardinality(ViableOf(t)) >= 2}

\* C11 as stated: a requested doc type of which the source returns two or
\* more mdocs that each hold all requested attributes always makes start()
\* fail with MultipleCandidates, naming exactly the doc types with two or
\* more viable mdocs.
\* Fails: when another requested doc type has no viable mdoc, start() ends
\* with AttributesNotAvailable before the candidates are counted.
C11_TwoViableIsMultipleCandidates ==
    (pc = "done" /\ mdocs # None /\ ContractKept /\ AmbiguousDocTypes # {}) =>
        /\ result.error = "MultipleCandidates"
        /\ Range(result.doc_types) = AmbiguousDocTypes

\* C11 amended: when matching gives Candidates (every requested doc type
\* has a viable mdoc), start() fails with MultipleCandidates iff some doc
\* type has two or more viable mdocs, and the error names each such doc
\* type once and no other; when matching gives MissingAttributes, start()
\* ends with AttributesNotAvailable also if a doc type has several viable
\* mdocs.
C11_MultipleCandidatesAmongCandidates ==
    (pc = "done" /\ matched # None) =>
        /\ Unwrap(matched).kind = "Candidates" =>
            /\ AmbiguousDocTypes # {} =>
                /\ result.status = "Err" /\ result.error = "MultipleCandidates"
                /\ Range(result.doc_types) = AmbiguousDocTypes
                /\ Len(result.doc_types) = Cardinality(AmbiguousDocTypes)
                /\ session = None
            /\ AmbiguousDocTypes = {} => result.status = "Ok"
        /\ result.error = "MultipleCandidates" =>
            Unwrap(matched).kind = "Candidates" /\ AmbiguousDocTypes # {}
        /\ Unwrap(matched).kind = "MissingAttributes" =>
            result.error = "AttributesNotAvailable"

\* C11 witness: two doc types are requested, one has two viable mdocs and
\* the other one; start() failed naming the first only
C11_Witness ==
    /\ pc = "done" /\ matched # None
    /\ Unwrap(matched).kind = "Candidates"
    /\ RequestedDocTypes = {"T1", "T2"}
    /\ Cardinality(ViableOf("T1")) = 2
    /\ Cardinality(ViableOf("T2")) = 1
    /\ result = MultipleCandidates(<<"T1">>)

\* the requested doc types of which the data source returned no mdoc
AbsentDocTypes ==
    {t \in RequestedDocTypes :
        \A i \in 1..Len(ReturnedMdocs) : ReturnedMdocs[i].doc_type # t}

\* C12: if the data source returns no mdoc of a requested doc type, every
\* identifier requested of that doc type is in the missing set, and start()
\* makes no session but ends with AttributesNotAvailable, which carries the
\* verified ReaderRegistration and the missing identifiers.
\* Fails: an absent doc type of which no attribute is requested is not
\* counted as missing, so start() can still return a session; and mdocs of
\* another doc type requested without attributes make matching panic.
C12_AbsentTypeIsNotAvailable ==
    (pc = "done" /\ mdocs # None /\ ContractKept /\ AbsentDocTypes # {}) =>
        /\ Unwrap(matched).kind = "MissingAttributes"
        /\ \A t \in AbsentDocTypes :
                RequestedFor(t) \subseteq Range(Unwrap(matched).missing_attributes)
        /\ session = None
        /\ result = AttributesNotAvailable(Unwrap(Unwrap(Unwrap(verify_result).value)),
                                           Unwrap(matched).missing_attributes)

\* C13: start() fails with NoDocumentRequests whenever the decrypted
\* DeviceRequest holds no DocRequest, and only then; the test comes before
\* reader authentication and matching: such a request is never reported as
\* ReaderAuthMissing, is never verified and never reaches the data source.
C13_EmptyRequestIsNoDocumentRequests ==
    /\ (device_request # None /\ TheDocRequests = <<>>) =>
        /\ pc = "done"
        /\ result = Failed("NoDocumentRequests")
        /\ verify_result = None
        /\ queries = <<>> /\ mdocs = None /\ matched = None
        /\ session = None
    /\ result.error = "NoDocumentRequests" =>
        device_request # None /\ TheDocRequests = <<>>

\* C13 witness: the verifier sent a DeviceRequest without DocRequests under
\* the session's key and start() has ended
C13_Witness ==
    /\ device_request # None
    /\ TheDocRequests = <<>>
    /\ Unwrap(DecryptAndDeserialize(Unwrap(session_data),
                                    Unwrap(session_keys).reader_key).value)
            = Unwrap(device_request)
    /\ result = Failed("NoDocumentRequests")

\* C14: start() with engagement bytes that do not decode as a
\* ReaderEngagement (empty bytes among them) fails with the CBOR decode
\* error, for either session type, before the transport, the trust anchors
\* or the data source are used.
C14_UndecodableEngagementIsDecodeError ==
    (pc # "idle" /\ ~CborDeserialize(reader_engagement_bytes).ok) =>
        /\ pc = "done"
        /\ result = Failed("Cbor")
        /\ reader_engagement = None
        /\ posts = <<>>
        /\ verify_result = None
        /\ queries = <<>>
        /\ session = None

\* C14 witness: start() was called with empty bytes for a cross-device
\* session and has ended
C14_Witness ==
    /\ pc = "done"
    /\ reader_engagement_bytes = <<>>
    /\ session_type = "CrossDevice"
    /\ result = Failed("Cbor")

\* C15: start() posts the DeviceEngagement to the URL of the first
\* connection method of the ReaderEngagement and to no other URL, at most
\* once; when the engagement has no connection method, start() fails with
\* VerifierUrlMissing and nothing is posted.
C15_PostsToFirstConnectionMethod ==
    /\ \A i \in 1..Len(posts) :
        /\ reader_engagement # None
        /\ Unwrap(reader_engagement).connection_methods # None
        /\ Unwrap(Unwrap(reader_engagement).connection_methods) # <<>>
        /\ posts[i][1] = Unwrap(Unwrap(reader_engagement).connection_methods)[1]
        /\ posts[i][2] = NewDeviceEngagement(REFERRER_URL, Unwrap(ephemeral_privkey))
    /\ (/\ reader_engagement # None
        /\ \/ Unwrap(reader_engagement).connection_methods = None
           \/ Unwrap(reader_engagement).connection_methods = Some(<<>>))
            => /\ pc = "done"
               /\ result = Failed("VerifierUrlMissing")
               /\ posts = <<>>
               /\ session = None

\* C15 witness: the engagement names two connection methods and the
\* DeviceEngagement was posted to the first
C15_Witness ==
    /\ reader_engagement # None
    /\ Unwrap(reader_engagement).connection_methods = Some(<<OTHER_URL, SESSION_URL>>)
    /\ Len(posts) = 1
    /\ posts[1][1] = OTHER_URL
    /\ session # None
    /\ Unwrap(session).verifier_url = OTHER_URL

\* the steps of start() that were taken are a prefix of engagement, one
\* exchange over the transport, decryption, reader authentication, the
\* query of the data source, matching, the session
StepsInOrder ==
    /\ Len(posts) <= 1 /\ Len(queries) <= 1
    /\ reader_engagement # None =>
            reader_engagement_bytes = CborSerialize(Unwrap(reader_engagement))
    /\ transcript # None =>
            /\ reader_engagement # None /\ ephemeral_privkey # None
            /\ session_keys # None
    /\ posts # <<>> => transcript # None
    /\ session_data # None => posts # <<>>
    /\ device_request # None => session_data # None
    /\ verify_result # None => device_request # None /\ TheDocRequests # <<>>
    /\ queries # <<>> =>
            /\ verify_result # None
            /\ Unwrap(verify_result).ok
            /\ Unwrap(Unwrap(verify_result).value) # None
            /\ \A i \in 1..Len(TheDocRequests) : ValidlySigned(TheDocRequests[i])
    /\ mdocs # None => queries # <<>>
    /\ matched # None => mdocs # None
    /\ session # None =>
            /\ matched # None /\ Unwrap(matched).kind = "Candidates"
            /\ Len(posts) = 1 /\ Len(queries) = 1
    /\ (pc = "done" /\ session = None) => result.status \in {"Err", "Panic"}
    /\ pc # "done" => result = Pending /\ session = None

\* a step of start() takes the next steps only: it posts only when nothing
\* was posted and the keys are there, it queries the data source only
\* after the exchange, it matches only what was queried, and once start()
\* has ended, with a session or with an error, nothing is done any more
StepInOrder ==
    /\ posts' # posts => pc = "idle" /\ posts = <<>> /\ session_keys' # None
    /\ session_data' # session_data => pc = "posting" /\ posts # <<>>
    /\ queries' # queries =>
            pc = "posting" /\ queries = <<>> /\ verify_result' # None
    /\ mdocs' # mdocs => pc = "fetching" /\ queries # <<>>
    /\ session' # session => pc = "fetching" /\ matched' # None
    /\ pc = "done" => UNCHANGED vars
    /\ result.status # "Pending" => UNCHANGED vars

\* C16: within one session the steps run in the order engagement (decode,
\* URL, keys), one exchange over the transport, decryption, reader
\* authentication, matching, proposal: the transport is contacted at most
\* once and only after transcript and keys were derived, the data source is
\* queried only after reader authentication succeeded, and after a step
\* failed no later step is taken.
C16_StepsRunInOrder ==
    [](StepsInOrder) /\ [][StepInOrder]_vars

\* C16 witness: all steps were taken and gave a session for two documents
C16_Witness ==
    /\ pc = "done" /\ session # None
    /\ Len(posts) = 1 /\ Len(queries) = 1
    /\ matched # None
    /\ Len(Unwrap(session).proposed_documents) = 2

\* the calls of one operation made on the session, with one result
CallsOf(op, status) == {i \in 1..Len(calls) : calls[i].op = op /\ calls[i].status = status}

\* the disclose() calls made on the proposal of the session
DiscloseCalls == {i \in 1..Len(calls) : calls[i].op = "disclose"}

\* the last call made on the session
LastCall == calls[Len(calls)]

StartedMissingAttributes ==
    /\ calls # <<>>
    /\ calls[1].status = "Ok"
    /\ Unwrap(calls[1].exposed).state = "MissingAttributes"

TerminateCalls == {i \in 1..Len(calls) : calls[i].op = "terminate"}

\* C19: once terminate() has returned, with Ok or with an error and from
\* either state, the session is no longer owned and no further disclose(),
\* terminate() or query is made on it.
C19_TerminateConsumesSession ==
    \A i \in TerminateCalls :
        /\ i = Len(calls)
        /\ disclosure_session = None
        /\ was_terminated

\* terminate() failed on a session whose proposal had been disclosed
\* before, and the session is gone
C19_Witness ==
    /\ calls # <<>>
    /\ LastCall.op = "terminate"
    /\ LastCall.status = "Err"
    /\ Unwrap(calls[1].exposed).state = "Proposal"
    /\ DiscloseCalls # {}
    /\ disclosure_session = None

\* C20: every disclose() call returns to its caller, with Ok or with an
\* error that carries the data_shared flag; none ends in a panic.
C20_DiscloseFailureIsReturned ==
    \A i \in DiscloseCalls :
        /\ calls[i].status \in {"Ok", "Err"}
        /\ calls[i].status = "Err" =>
                /\ calls[i].error # None
                /\ Unwrap(calls[i].error).data_shared \in BOOLEAN

\* the doc types that several DocRequests of the DeviceRequest name
RepeatedDocTypes ==
    {t \in RequestedDocTypes :
        \E i, j \in 1..Len(TheDocRequests) :
            /\ i # j
            /\ TheDocRequests[i].items_request.doc_type = t
            /\ TheDocRequests[j].items_request.doc_type = t}

\* the identifiers of the attributes a proposed document holds
IdentifiersIn(document) ==
    LET name_spaces == ProposedNameSpaces(document)
    IN  UNION {{AttributeIdentifier(document.doc_type, name_spaces[k][1],
                                    name_spaces[k][2][j].name) :
                    j \in 1..Len(name_spaces[k][2])} :
                k \in 1..Len(name_spaces)}

\* C21: the data source is asked once, for the set of the requested doc
\* types, and a session that start() returned holds, for every doc type
\* that several DocRequests name, exactly one proposed document, whose
\* attributes are exactly the union of what those DocRequests ask for.
\* Fails: a doc type named by several DocRequests that all ask for no
\* attribute has no proposed document in the session (see C1).
C21_RepeatedTypeGetsUnion ==
    /\ queries = <<RequestedDocTypes>>
    /\ session # None =>
            LET documents == Unwrap(session).proposed_documents
            IN  \A t \in RepeatedDocTypes :
                    /\ Cardinality({i \in 1..Len(documents) : documents[i].doc_type = t}) = 1
                    /\ \A i \in 1..Len(documents) :
                            documents[i].doc_type = t =>
                                IdentifiersIn(documents[i]) = RequestedFor(t)

RECURSIVE RunAlone(_, _)
\* the locals of a call at its end when it runs with no other call
RunAlone(local, store) ==
    IF local.pc = "done" THEN local ELSE RunAlone(StartStep(local, store), store)

C24_CallbackOncePerChange ==
    [][/\ returned'.op \in {"lock", "unlock"} /\ steps' = steps + 1 =>
            /\ lock'.is_locked = (returned'.op = "lock")
            /\ lock'.update_callback = lock.update_callback
            /\ callback_calls' =
                    IF lock'.is_locked # lock.is_locked /\ lock.update_callback # None
                    THEN Append(callback_calls, <<Unwrap(lock.update_callback), lock'.is_locked>>)
                    ELSE callback_calls
            /\ returned'.op = "lock" =>
                    WalletLockLock(lock', callback_calls') = [lock |-> lock', invoked |-> callback_calls']
            /\ returned'.op = "unlock" =>
                    WalletLockUnlock(lock', callback_calls') = [lock |-> lock', invoked |-> callback_calls']
       /\ returned'.op \in {"set_lock_callback", "clear_lock_callback"} /\ steps' = steps + 1 =>
            /\ callback_calls' = callback_calls
            /\ lock'.is_locked = lock.is_locked]_vars

\* unlock() and then lock() each told the callback once, and a further
\* lock() told it nothing
C24_Witness ==
    /\ returned.op = "lock"
    /\ steps = 4
    /\ lock.update_callback = Some("f")
    /\ callback_calls = <<<<"f", FALSE>>, <<"f", TRUE>>>>

\* the last call failed with this error
ReturnedErr(error) == ~returned.result.ok /\ returned.result.error = error

\* the step is a call of this operation
Calls(op) == steps' = steps + 1 /\ returned'.op = op

\* the step is a call on a wallet that has a registration and is unlocked
OnOpenWallet == wallet.registration # None /\ ~lock.is_locked

\* the session state in which the lifecycle accepts an operation
AcceptedIn(op) ==
    CASE op = "create_pid_issuance_auth_url" -> {None}
      [] op = "continue_pid_issuance" -> {Some("Digid")}
      [] op = "accept_pid_issuance" -> {Some("Openid4vci")}
      [] op = "cancel_pid_issuance" -> {Some("Digid"), Some("Openid4vci")}

\* the session state a successful operation leaves
LeftBy(op) ==
    CASE op = "create_pid_issuance_auth_url" -> Some("Digid")
      [] op = "continue_pid_issuance" -> Some("Openid4vci")
      [] op = "accept_pid_issuance" -> None
      [] op = "cancel_pid_issuance" -> None

\* C25: on a registered, unlocked wallet each of create, continue, accept
\* and cancel fails with SessionState and leaves the issuance session as it
\* was when the session is not in the state the lifecycle asks for (none,
\* DigiD, OpenID4VCI, some session); in that state it does not fail with
\* SessionState, and when it succeeds the session is the next of the
\* lifecycle: DigiD after create, OpenID4VCI after continue, none after
\* accept and cancel. No other step makes a DigiD or an OpenID4VCI session.
C25_SessionLifecycle ==
    [][/\ \A op \in {"create_pid_issuance_auth_url", "continue_pid_issuance",
                     "accept_pid_issuance", "cancel_pid_issuance"} :
            Calls(op) /\ OnOpenWallet =>
                IF wallet.issuance_session \in AcceptedIn(op)
                THEN /\ ~ReturnedErr("SessionState")'
                     /\ returned'.result.ok => wallet'.issuance_session = LeftBy(op)
                ELSE /\ ReturnedErr("SessionState")'
                     /\ wallet'.issuance_session = wallet.issuance_session
       /\ wallet'.issuance_session # wallet.issuance_session /\ wallet'.issuance_session # None =>
            /\ returned'.result.ok
            /\ \/ Calls("create_pid_issuance_auth_url") /\ wallet.issuance_session = None
               \/ Calls("continue_pid_issuance") /\ wallet.issuance_session = Some("Digid")
            /\ wallet'.issuance_session = LeftBy(returned'.op)]_vars

\* after create and continue a second continue failed with SessionState
\* and the OpenID4VCI session is still there
C25_Witness ==
    /\ returned.op = "continue_pid_issuance"
    /\ ReturnedErr("SessionState")
    /\ wallet.issuance_session = Some("Openid4vci")
    /\ wallet.registration # None
    /\ ~lock.is_locked

\* the operations of PID issuance
IssuanceOperations ==
    {"create_pid_issuance_auth_url", "has_active_pid_issuance_session", "cancel_pid_issuance",
     "continue_pid_issuance", "accept_pid_issuance"}

\* C26: each of the five issuance operations fails with NotRegistered on a
\* wallet without registration, locked or not, and with Locked on a
\* registered, locked wallet, whatever the issuance session is; such a call
\* reaches no storage, DigiD, issuer or account server and leaves the
\* wallet (registration, storage, issuance session) and the lock as they
\* were; on a registered, unlocked wallet no operation returns either error.
C26_RegisteredAndUnlockedFirst ==
    [][\A op \in IssuanceOperations :
        Calls(op) =>
            /\ wallet.registration = None =>
                    /\ ReturnedErr("NotRegistered")'
                    /\ returned'.contacted = {}
                    /\ UNCHANGED <<wallet, lock, callback_calls>>
            /\ wallet.registration # None /\ lock.is_locked =>
                    /\ ReturnedErr("Locked")'
                    /\ returned'.contacted = {}
                    /\ UNCHANGED <<wallet, lock, callback_calls>>
            /\ OnOpenWallet => ~ReturnedErr("NotRegistered")' /\ ~ReturnedErr("Locked")']_vars

\* accept on a locked wallet whose session is a DigiD session: Locked, not
\* SessionState, and the session is kept
C26_Witness ==
    /\ returned.op = "accept_pid_issuance"
    /\ ReturnedErr("Locked")
    /\ returned.contacted = {}
    /\ wallet.issuance_session = Some("Digid")
    /\ lock.is_locked

\* the wallet and the lock are as a wallet is before it is registered
InInitialState ==
    /\ wallet.registration = None
    /\ lock.is_locked
    /\ wallet.storage.state = "Uninitialized"

\* the wallet has its registration, is unlocked and its storage is opened
StillInUse ==
    /\ wallet.registration # None
    /\ ~lock.is_locked
    /\ wallet.storage.state = "Opened"

\* C27: a call of accept_pid_issuance on a registered, unlocked wallet
\* that fails with the instruction error Timeout or Blocked leaves the
\* wallet in its initial state: no registration, locked, storage
\* Uninitialized, and no issuance session; a call that
\* fails with any other error leaves the registration and the lock as
\* they were and the storage opened.
C27_WipedOnTimeoutOrBlockedOnly ==
    [][Calls("accept_pid_issuance") /\ StillInUse /\ ~returned'.result.ok =>
            IF returned'.result.error \in {"Instruction(Timeout)", "Instruction(Blocked)"}
            THEN /\ InInitialState'
                 /\ wallet'.issuance_session = None
            ELSE /\ StillInUse'
                 /\ wallet'.registration = wallet.registration
                 /\ UNCHANGED <<lock, callback_calls>>]_vars

\* accept failed with Blocked and the wallet is wiped
C27_Witness ==
    /\ returned.op = "accept_pid_issuance"
    /\ ReturnedErr("Instruction(Blocked)")
    /\ InInitialState
    /\ wallet.storage.mdocs = {}

\* C28: a call of cancel_pid_issuance on a registered, unlocked wallet
\* that has an issuance session leaves the wallet without issuance
\* session; with a DigiD session it succeeds without reaching the issuer,
\* with an OpenID4VCI session it succeeds when the issuer takes the
\* rejection and fails with PidIssuer when the rejection fails, and it
\* fails in no other way.
C28_CancelAlwaysClears ==
    [][Calls("cancel_pid_issuance") /\ OnOpenWallet /\ wallet.issuance_session # None =>
            /\ wallet'.issuance_session = None
            /\ returned'.result.ok \/ ReturnedErr("PidIssuer")'
            /\ wallet.issuance_session = Some("Digid") =>
                    returned'.result.ok /\ returned'.contacted = {}
            /\ wallet.issuance_session = Some("Openid4vci") => returned'.contacted = {"issuer"}
            /\ wallet'.registration = wallet.registration
            /\ wallet'.storage = wallet.storage
            /\ UNCHANGED <<lock, callback_calls>>]_vars

\* the rejection of an OpenID4VCI session failed: the caller got
\* PidIssuer and the session is gone
C28_Witness ==
    /\ returned.op = "cancel_pid_issuance"
    /\ ReturnedErr("PidIssuer")
    /\ returned.contacted = {"issuer"}
    /\ wallet.issuance_session = None
    /\ wallet.registration # None
    /\ ~lock.is_locked

\* the PID is in the storage of the wallet
PidStored == PID_DOCTYPE \in wallet.storage.mdocs

\* a successful accept_pid_issuance stores the PID, logs one issuance
\* event and leaves no issuance session
AcceptStoresPid ==
    Calls("accept_pid_issuance") /\ returned'.result.ok =>
        /\ PidStored'
        /\ wallet.storage.mdocs \subseteq wallet'.storage.mdocs
        /\ wallet'.storage.events = Append(wallet.storage.events, "Issuance")
        /\ wallet'.issuance_session = None

\* a create_pid_issuance_auth_url while the PID is stored fails, starts no
\* DigiD session and does not reach DigiD
CreateStartsNoSession ==
    Calls("create_pid_issuance_auth_url") /\ PidStored =>
        /\ ~returned'.result.ok
        /\ "digid" \notin returned'.contacted
        /\ UNCHANGED <<wallet, lock, callback_calls>>

\* C29 as stated: after a successful accept_pid_issuance the PID is
\* stored, one issuance event is logged and the session is gone, and every
\* create_pid_issuance_auth_url made while the PID is stored fails with
\* PidAlreadyPresent and starts no DigiD session.
C29_EveryCreateIsPidAlreadyPresent ==
    [][/\ AcceptStoresPid
       /\ CreateStartsNoSession
       /\ Calls("create_pid_issuance_auth_url") /\ PidStored => ReturnedErr("PidAlreadyPresent")']_vars

\* C29 amended: after a successful accept_pid_issuance the PID is stored,
\* one issuance event is logged and the session is gone, and every
\* create_pid_issuance_auth_url made while the PID is stored fails and
\* starts no DigiD session: with Locked when the wallet is locked, and on
\* an unlocked wallet with MdocStorage when the storage cannot be queried
\* and with PidAlreadyPresent when it can.
C29_EveryCreateFailsWhilePidStored ==
    [][/\ AcceptStoresPid
       /\ CreateStartsNoSession
       /\ Calls("create_pid_issuance_auth_url") /\ PidStored =>
            /\ wallet.registration # None
            /\ IF lock.is_locked
               THEN ReturnedErr("Locked")' /\ returned'.contacted = {}
               ELSE /\ returned'.contacted = {"storage"}
                    /\ ReturnedErr("PidAlreadyPresent")' \/ ReturnedErr("MdocStorage")']_vars

\* the PID and the address were issued and accepted in this run, and the
\* create that followed failed with PidAlreadyPresent
C29_Witness ==
    /\ returned.op = "create_pid_issuance_auth_url"
    /\ ReturnedErr("PidAlreadyPresent")
    /\ wallet.storage.mdocs = {PID_DOCTYPE, "com.example.address"}
    /\ wallet.storage.events = <<"Issuance">>
    /\ wallet.issuance_session = None

\* C30: a call of reset() on a registered wallet, locked or unlocked,
\* fails only when the database cannot be cleared; when it succeeds the
\* wallet is in its initial state: storage Uninitialized and empty, no
\* registration, no DigiD session, no disclosure session, and locked, the
\* lock callback being told if the wallet was unlocked. A failing
\* rejection of a pending PID at the issuer changes none of this and is
\* not returned.
C30_ResetLeavesInitialState ==
    [][Calls("reset") /\ wallet.registration # None =>
            /\ returned'.result.ok \/ ReturnedErr("ClearDatabase")'
            /\ returned'.result.ok =>
                    /\ InInitialState'
                    /\ wallet'.storage.mdocs = {} /\ wallet'.storage.events = <<>>
                    /\ wallet'.digid_session = None
                    /\ wallet'.disclosure_session = None
                    /\ lock'.update_callback = lock.update_callback
                    /\ callback_calls' = IF ~lock.is_locked /\ lock.update_callback # None
                                         THEN Append(callback_calls, <<Unwrap(lock.update_callback), TRUE>>)
                                         ELSE callback_calls
                    /\ ("issuer" \in returned'.contacted) = wallet.pid_issuer.has_session]_vars

\* reset() succeeded on an unlocked wallet although the issuer, which was
\* asked to reject the pending PID, still has its session
C30_Witness ==
    /\ returned.op = "reset"
    /\ returned.result.ok
    /\ "issuer" \in returned.contacted
    /\ wallet.pid_issuer.has_session
    /\ InInitialState
    /\ callback_calls = <<<<"f", TRUE>>>>
    /\ steps = 1

C32_RegisterOnceAndUnlock ==
    [][Calls("register") =>
            /\ \A pin \in Pins, fails \in (DOMAIN RegisterFailures) \cup {"none"} :
                    WalletRegister(wallet, lock, callback_calls, pin, fails).result.ok =>
                        ValidatePin(pin) /\ wallet.registration = None
            /\ wallet.registration # None => ReturnedErr("AlreadyRegistered")'
            /\ returned'.result.ok =>
                    /\ wallet.registration = None
                    /\ wallet'.registration # None
                    /\ wallet'.storage.data = wallet'.registration
                    /\ wallet'.storage.state = "Opened"
                    /\ ~lock'.is_locked
            /\ ~returned'.result.ok =>
                    /\ wallet'.registration = wallet.registration
                    /\ UNCHANGED <<lock, callback_calls>>
                    /\ wallet.registration = None => ~ReturnedErr("AlreadyRegistered")']_vars

\* register() succeeded on the locked wallet, which told the callback, and
\* the register() after it failed with AlreadyRegistered
C32_Witness ==
    /\ returned.op = "register"
    /\ ReturnedErr("AlreadyRegistered")
    /\ wallet.registration = Some(RegistrationData(1, 0))
    /\ wallet.account_server.received = <<>>
    /\ callback_calls = <<<<"f", FALSE>>>>
    /\ ~lock.is_locked

\* the instruction messages the account server received so far
Received == wallet.account_server.received

\* the message was sent with a number the storage held at that moment
StoredBeforeSent(message) ==
    message.stored = Some(RegistrationData(message.wallet_certificate, message.instruction_sequence_number))

\* C37 as stated: every instruction message carries a sequence number
\* strictly greater than that of every instruction message sent before,
\* and the storage held that number when the message was sent.
C37_SequenceNumbersIncrease ==
    /\ \A i \in 1..Len(Received), j \in 1..Len(Received) :
            i < j => Received[i].instruction_sequence_number < Received[j].instruction_sequence_number
    /\ \A i \in 1..Len(Received) : StoredBeforeSent(Received[i])

\* C37 amended: every instruction message carries a sequence number
\* strictly greater than that of every instruction message sent before
\* under the same registration, and the storage held that number when the
\* message was sent; the number in memory is never below the stored one. A
\* registration made after reset() starts again at 0.
C37_SequenceNumbersIncreasePerRegistration ==
    /\ \A i \in 1..Len(Received), j \in 1..Len(Received) :
            i < j /\ Received[i].wallet_certificate = Received[j].wallet_certificate =>
                Received[i].instruction_sequence_number < Received[j].instruction_sequence_number
    /\ \A i \in 1..Len(Received) :
            /\ StoredBeforeSent(Received[i])
            /\ Received[i].instruction_sequence_number > 0
    /\ wallet.registration # None =>
            /\ wallet.storage.data # None
            /\ Unwrap(wallet.storage.data).wallet_certificate = Unwrap(wallet.registration).wallet_certificate
            /\ Unwrap(wallet.storage.data).instruction_sequence_number <= Unwrap(wallet.registration).instruction_sequence_number
            /\ \A i \in 1..Len(Received) :
                    Received[i].wallet_certificate = Unwrap(wallet.registration).wallet_certificate =>
                        Received[i].instruction_sequence_number <= Unwrap(wallet.storage.data).instruction_sequence_number

\* an unlock with an incorrect PIN sent the numbers 1 and 2, an unlock
\* that could not store its number sent nothing, and the unlock that
\* succeeded sent 4 and 5
C37_Witness ==
    /\ returned.op = "unlock"
    /\ returned.result.ok
    /\ Len(Received) = 4
    /\ Received[2].instruction_sequence_number = 2
    /\ Received[3].instruction_sequence_number = 4
    /\ Received[4].kind = "check_pin"
    /\ ~lock.is_locked

\* C38: in every state of the wallet, from its creation (locked, with the
\* registration its storage holds, if any) over register(), unlock(),
\* lock() and reset() in any order and with any failure, an unlocked wallet
\* has a registration, and that registration is in storage.
C38_UnlockedIsRegistered ==
    ~lock.is_locked =>
        /\ wallet.registration # None
        /\ wallet.storage.data # None
        /\ wallet.storage.state = "Opened"

\* a wallet that was registered, reset while unlocked, which locked it,
\* and registered again, which unlocked it
C38_Witness ==
    /\ returned.op = "register"
    /\ returned.result.ok
    /\ ~lock.is_locked
    /\ wallet.registration = Some(RegistrationData(2, 0))
    /\ callback_calls = <<<<"f", FALSE>>, <<"f", TRUE>>, <<"f", FALSE>>>>

\* the step is a failing accept_pid_issuance on a registered, unlocked
\* wallet with an OpenID4VCI session
AcceptFails ==
    /\ Calls("accept_pid_issuance")
    /\ OnOpenWallet
    /\ wallet.issuance_session = Some("Openid4vci")
    /\ ~returned'.result.ok

\* the failures of accept_pid_issuance that come after the issuer
\* accepted the issuance
AfterAcceptance ==
    {"InvalidIssuerCertificate", "MissingIssuerRegistration", "MdocStorage", "EventStorage", "Document"}

\* C39 as stated: a failed accept_pid_issuance that does not reset the
\* wallet leaves the OpenID4VCI session in place.
C39_FailedAcceptKeepsSession ==
    [][AcceptFails /\ wallet'.registration # None =>
            wallet'.issuance_session = Some("Openid4vci")]_vars

\* C39 amended: an accept_pid_issuance that fails before the issuer
\* accepted the issuance and does not reset the wallet (incorrect PIN,
\* instruction validation, signature, key not found, missing signature,
\* issuer error) leaves the wallet, with its OpenID4VCI session, and the
\* lock as they were; the session is removed exactly when the wallet is
\* reset (Timeout, Blocked) or the issuer accepted the issuance, also when
\* the call then fails on the certificate, the storage, the event log or
\* the documents.
C39_SessionKeptUntilIssuerAccepted ==
    [][/\ AcceptFails =>
            /\ "issuer" \in returned'.contacted
            /\ IF returned'.result.error \in AfterAcceptance
               THEN wallet'.issuance_session = None /\ wallet'.registration = wallet.registration
               ELSE IF returned'.result.error \in {"Instruction(Timeout)", "Instruction(Blocked)"}
               THEN wallet'.issuance_session = None /\ wallet'.registration = None
               ELSE UNCHANGED <<wallet, lock, callback_calls>>
       /\ Calls("accept_pid_issuance") /\ wallet.issuance_session # None /\ wallet'.issuance_session = None =>
            \/ returned'.result.ok
            \/ returned'.result.error \in AfterAcceptance
            \/ returned'.result.error \in {"Instruction(Timeout)", "Instruction(Blocked)"}]_vars

\* accept failed with an incorrect PIN and the OpenID4VCI session is
\* still there
C39_Witness ==
    /\ returned.op = "accept_pid_issuance"
    /\ ReturnedErr("Instruction(IncorrectPin)")
    /\ wallet.issuance_session = Some("Openid4vci")
    /\ wallet.registration # None
    /\ ~lock.is_locked

\* the mdocs of a doc type that the source returned and that lack some
\* requested attribute, in the order of the source
LackingOf(doc_type) ==
    SelectSeq(ReturnedMdocs, LAMBDA mdoc : mdoc.doc_type = doc_type /\ ~Satisfies(mdoc))

\* the identifiers of a doc type in the MissingAttributes result
MissingOfType(doc_type) ==
    SelectSeq(Unwrap(matched).missing_attributes, LAMBDA id : id.doc_type = doc_type)

\* C33: when matching reports MissingAttributes and the source returned,
\* for a requested doc type, one or more mdocs that lack requested
\* attributes, the identifiers of that type in the result are exactly the
\* identifiers requested of the type that the first such mdoc, in the
\* order of the source, does not hold, each once; what the other lacking
\* mdocs of the type miss adds nothing.
C33_OnlyFirstLackingMdocIsReported ==
    (matched # None /\ ContractKept /\ Unwrap(matched).kind = "MissingAttributes") =>
        \A t \in RequestedDocTypes :
            LackingOf(t) # <<>> =>
                /\ Range(MissingOfType(t)) = RequestedFor(t) \ HeldIn(LackingOf(t)[1])
                /\ Len(MissingOfType(t)) = Cardinality(Range(MissingOfType(t)))

\* two mdocs of one doc type lack requested attributes, the second lacks
\* an attribute that the first holds, and that attribute is not reported
C33_Witness ==
    /\ matched # None
    /\ ContractKept
    /\ Unwrap(matched).kind = "MissingAttributes"
    /\ \E t \in RequestedDocTypes :
        /\ Len(LackingOf(t)) >= 2
        /\ \E id \in RequestedFor(t) :
            /\ id \in HeldIn(LackingOf(t)[1])
            /\ id \notin HeldIn(LackingOf(t)[2])
            /\ id \notin Range(Unwrap(matched).missing_attributes)
        /\ MissingOfType(t) # <<>>

\* the groups the source returned that hold at least one mdoc
NonEmptyGroups == SelectSeq(Unwrap(mdocs), LAMBDA group : group # <<>>)

\* the three ways in which the source can break its contract: a non-empty
\* group of a doc type that is not requested, a second group of a doc type,
\* a group of mdocs of different doc types
UnrequestedGroup ==
    \E g \in 1..Len(NonEmptyGroups) : NonEmptyGroups[g][1].doc_type \notin RequestedDocTypes

SecondGroup ==
    \E g, h \in 1..Len(NonEmptyGroups) :
        g # h /\ NonEmptyGroups[g][1].doc_type = NonEmptyGroups[h][1].doc_type

MixedGroup ==
    \E g \in 1..Len(NonEmptyGroups) : \E i \in 1..Len(NonEmptyGroups[g]) :
        NonEmptyGroups[g][i].doc_type # NonEmptyGroups[g][1].doc_type

\* C34: when the source returns a non-empty group of a doc type that is
\* not requested, a second group of a doc type, or a group of mdocs of
\* different doc types, matching panics and returns neither Candidates nor
\* MissingAttributes.  Empty groups are ignored: they alone never make
\* matching panic, and a requested doc type of which only empty groups are
\* returned has all its requested identifiers in the MissingAttributes
\* result, as a type that is not returned has.
C34_ContractBreachPanics ==
    matched # None =>
        /\ (UnrequestedGroup \/ SecondGroup \/ MixedGroup)
                => Unwrap(matched).kind = "Panic"
        /\ NonEmptyGroups = <<>> => Unwrap(matched).kind # "Panic"
        /\ Unwrap(matched).kind # "Panic" =>
                \A t \in RequestedDocTypes :
                    (RequestedFor(t) # {} /\ \A g \in 1..Len(NonEmptyGroups) :
                                                NonEmptyGroups[g][1].doc_type # t)
                        => /\ Unwrap(matched).kind = "MissingAttributes"
                           /\ RequestedFor(t) \subseteq Range(Unwrap(matched).missing_attributes)

\* the source returned two groups of one requested doc type, each of one
\* doc type, and matching panicked
C34_Witness ==
    /\ matched # None
    /\ SecondGroup
    /\ ~UnrequestedGroup
    /\ ~MixedGroup
    /\ Unwrap(matched).kind = "Panic"

\* C35: every ProposedDocument that a matching run produces carries as
\* device-authentication challenge the serialized DeviceAuthentication of
\* the session transcript of the run, the doc type of the document and
\* empty device name spaces: the documents of one doc type carry the same
\* challenge, whatever mdoc they come from and whatever attributes are
\* requested.
C35_OneChallengePerDocType ==
    (matched # None /\ transcript # None) =>
        \A t \in DOMAIN Unwrap(matched).candidates :
            \A i \in 1..Len(Unwrap(matched).candidates[t]) :
                Unwrap(matched).candidates[t][i].device_signed_challenge
                    = CborSerialize(<<"DeviceAuthentication", Unwrap(transcript), t, <<>> >>)

\* one run proposes two documents of one doc type, made from two mdocs
\* that hold different attributes
C35_Witness ==
    /\ matched # None
    /\ transcript # None
    /\ \E t \in DOMAIN Unwrap(matched).candidates :
        \E i, j \in 1..Len(Unwrap(matched).candidates[t]) :
            /\ i # j
            /\ Unwrap(matched).candidates[t][i].private_key_id
                    # Unwrap(matched).candidates[t][j].private_key_id
            /\ Unwrap(matched).candidates[t][i].issuer_signed.issuer_auth
                    # Unwrap(matched).candidates[t][j].issuer_signed.issuer_auth
            /\ Unwrap(matched).candidates[t][i].device_signed_challenge
                    = Unwrap(matched).candidates[t][j].device_signed_challenge

\* the DocRequests received whose reader authentication was not made over
\* the fixed string, the transcript of this session and the ItemsRequest
\* of the DocRequest itself
ReplayedDocRequests ==
    LET doc_requests == Unwrap(device_request).doc_requests
    IN  {i \in 1..Len(doc_requests) :
            /\ doc_requests[i].reader_auth # None
            /\ Unwrap(doc_requests[i].reader_auth).signed_payload
                    # <<"ReaderAuthentication", Unwrap(transcript),
                        doc_requests[i].items_request>>}

\* C36: when a DocRequest received carries a reader authentication that
\* was signed in a session with another transcript (another device
\* engagement, another reader engagement or the other flow type) or over
\* another ItemsRequest than the one it carries, reader authentication
\* fails, the data source is not asked and start() ends without a
\* session; a session exists only if every signature received was made
\* over the payload of this session and of its own ItemsRequest.
C36_ReplayedReaderAuthRejected ==
    (device_request # None /\ ReplayedDocRequests # {}) =>
        /\ verify_result # None
        /\ ~Unwrap(verify_result).ok
        /\ pc = "done"
        /\ result = Failed(Unwrap(verify_result).error)
        /\ queries = <<>>
        /\ session = None

\* the first DocRequest is signed for this session and the second carries
\* a signature of another session or of another ItemsRequest: start()
\* failed on the signature
C36_Witness ==
    /\ device_request # None
    /\ ReplayedDocRequests = {2}
    /\ verify_result # None
    /\ Unwrap(verify_result).error = "Cose"
    /\ pc = "done"
    /\ session = None

=============================================================================
